---- MODULE Spec2Model ----
(***************************************************************************)
(* A model of the oxidio playback engine (oxidio-core): the Player, its    *)
(* per-session decode thread, the SampleBuffer shared with the device      *)
(* callback, and the Playlist that play_next/play_previous consume.        *)
(*                                                                         *)
(* One control thread issues Player operations; each operation is cut into *)
(* steps at the points where it touches memory the decode thread or the    *)
(* device callback also touch.  Option<T> is modelled as a sequence of     *)
(* length 0 (None) or 1 (Some).                                            *)
(***************************************************************************)
EXTENDS Integers, Sequences, FiniteSets, TLC

\* ------------------------------------------------------------------ bounds
\* Sessions whose shared objects (the Arcs) can be alive at the same time.
MaxLive == 2
\* Frames one decode_next call returns at most.
ChunkFrames == 2
\* Largest seek target, in position ticks (TicksPerSec ticks to a second).
MaxSeekPos == 3
\* Frames the device callback asks for in one call, at most.
MaxCallbackFrames == 2

Slots == 1..MaxLive
Paths == {"a", "b"}
Positions == 0..MaxSeekPos
Volumes == {50, 100}

None == <<>>
Some(x) == <<x>>
IsSome(o) == Len(o) = 1
Unwrap(o) == o[1]

Min(a, b) == IF a < b THEN a ELSE b
Max(a, b) == IF a > b THEN a ELSE b

\* --------------------------------------------------------- the environment
\* The audio files: sample rate, channel count and length of each path.
\* "c" is a file at a rate the device takes as it is, high enough for the
\* decode-ahead target to be above zero, whose codec yields long chunks.
SourceRate(p) == IF p = "a" THEN 4 ELSE IF p = "c" THEN 20 ELSE 2
SourceChannels(p) == IF p = "b" THEN 2 ELSE 1
SourceFrames(p) == IF p = "a" THEN 3 ELSE IF p = "c" THEN 13 ELSE 2
\* Position ticks per second: a Duration is a whole number of ticks.
TicksPerSec == 4

\* The output device: the configurations it supports and its default one.
DeviceConfigs == << [channels |-> 2, min_rate |-> 4, max_rate |-> 4],
                    [channels |-> 1, min_rate |-> 20, max_rate |-> 20] >>
DeviceDefault == [channels |-> 2, rate |-> 4]

\* The resampler (rubato FastFixedOut): frames it asks for per call and the
\* fixed number of frames a call returns.
InputFramesNext == 1
OutChunkFrames == 1

\* ------------------------------------------------------------------- state
VARIABLES
    state,          \* Player.state: "Stopped" | "Playing" | "Paused"
    current_track,  \* Player.current_track: Option<path>
    playback,       \* Player.playback: Option<slot of the PlaybackHandle>
    volume,         \* Player.volume, in percent
    playlist,       \* Player.playlist: the Playlist record
    sess,           \* per slot: the objects a session shares between threads
    thr,            \* per slot: the decode thread and its locals
    ctl,            \* the control thread: the operation it is in, its locals
    call            \* the last direct SampleBuffer or Playlist call

vars == << state, current_track, playback, volume, playlist, sess, thr, ctl,
           call >>

\* A slot nobody refers to: no handle, no device stream, no thread.
FreeSess ==
    [ handle |-> FALSE, stream |-> FALSE, stop_flag |-> FALSE,
      paused |-> FALSE, buffer |-> <<>>, capacity |-> 0, vol |-> 100,
      source_channels |-> 1, output_channels |-> 1,
      frames_played |-> 0, sample_rate |-> 1, track_ended |-> FALSE,
      ended_on_empty |-> FALSE ]

NoThread ==
    [ pc |-> "none", path |-> "a", cursor |-> 0, resample |-> FALSE,
      resample_input |-> 0, out |-> <<>>, offset |-> 0, eof |-> FALSE,
      exit |-> "" ]

IdleCtl ==
    [ pc |-> "idle", op |-> "", path |-> None, pos |-> 0,
      before |-> "Stopped", h |-> None, res |-> "" ]

\* No SampleBuffer or Playlist method has been called directly.
NoCall ==
    [ op |-> "", arg |-> <<>>, ret |-> 0, out |-> <<>>, panicked |-> FALSE,
      allocs |-> 0, locks |-> {}, before |-> FreeSess ]

\* ------------------------------------------------------------ SampleBuffer
\* Mutant: push accepts every sample it is given.
PushCountUnbounded(buf, capacity, samples) == Len(samples)

\* SampleBuffer::push: the number of samples accepted.
PushCount(buf, capacity, samples) ==
    LET available == Max(capacity - Len(buf), 0)
    IN  Min(Len(samples), available)

\* SampleBuffer::push: the buffer afterwards.
PushBuffer(buf, capacity, samples) ==
    buf \o SubSeq(samples, 1, PushCount(buf, capacity, samples))

\* Mutant: pop processes as many frames as the output slice holds.
FramesOfOutput(buflen, out_len, src_ch, out_ch) == out_len \div out_ch

\* SampleBuffer::pop with conversion: frames_to_process, the smaller of the
\* frames the output slice holds and the whole frames buffered.
FramesToProcess(buflen, out_len, src_ch, out_ch) ==
    LET output_frames == out_len \div out_ch
        available_frames == buflen \div src_ch
    IN  Min(output_frames, available_frames)

\* SampleBuffer::pop, unpaused: the number of source samples it takes off
\* the front of the buffer for an output slice of out_len samples.
PopConsumed(buflen, out_len, src_ch, out_ch) ==
    IF src_ch = out_ch
    THEN Min(out_len, buflen)
    ELSE FramesToProcess(buflen, out_len, src_ch, out_ch) * src_ch

\* Mutant: pop takes the newest samples, off the back of the buffer.
PopBufferFromBack(b, out_len) ==
    IF b.paused
    THEN b.buffer
    ELSE SubSeq(b.buffer, 1,
                Len(b.buffer) - PopConsumed(Len(b.buffer), out_len,
                                            b.source_channels, b.output_channels))

\* Mutant: pop drains the buffer whether or not it is paused.
PopBufferWhilePaused(b, out_len) ==
    SubSeq(b.buffer,
           PopConsumed(Len(b.buffer), out_len,
                       b.source_channels, b.output_channels) + 1,
           Len(b.buffer))

\* SampleBuffer::pop: the buffer afterwards (a paused buffer keeps all).
PopBuffer(b, out_len) ==
    IF b.paused
    THEN b.buffer
    ELSE SubSeq(b.buffer,
                PopConsumed(Len(b.buffer), out_len,
                            b.source_channels, b.output_channels) + 1,
                Len(b.buffer))

\* SampleBuffer::pop: the value returned, `written` (0 when paused).
PopWritten(b, out_len) ==
    LET n == Len(b.buffer)
        src_ch == b.source_channels
        out_ch == b.output_channels
        frames == FramesToProcess(n, out_len, src_ch, out_ch)
    IN  IF b.paused THEN 0
        ELSE IF src_ch = out_ch THEN Min(out_len, n)
        ELSE IF src_ch = 1 /\ out_ch = 2 THEN frames * out_ch
        ELSE IF src_ch = 2 /\ out_ch = 1 THEN frames
        ELSE frames * out_ch

\* SampleBuffer::pop, unpaused: the index its "fill remaining with silence"
\* loop starts at.
SilenceFrom(b, out_len) ==
    LET n == Len(b.buffer)
        src_ch == b.source_channels
        out_ch == b.output_channels
        frames == FramesToProcess(n, out_len, src_ch, out_ch)
    IN  IF src_ch = out_ch THEN Min(out_len, n)
        ELSE IF src_ch = 1 /\ out_ch = 2 THEN frames * out_ch
        ELSE IF src_ch = 2 /\ out_ch = 1 THEN frames
        ELSE frames * out_ch

\* buf.pop_front() for the k-th sample taken in one pop (k from 1); beyond
\* the buffered samples the unwrap panics and there is no value.
At(buf, k) == IF k <= Len(buf) THEN buf[k] ELSE 0

\* SampleBuffer::pop: some pop_front().unwrap() finds the queue empty, or
\* an index written lies beyond the output slice.
PopPanics(b, out_len) ==
    /\ ~b.paused
    /\ \/ PopConsumed(Len(b.buffer), out_len, b.source_channels,
                       b.output_channels) > Len(b.buffer)
       \/ PopWritten(b, out_len) > out_len

\* SampleBuffer::pop: the heap allocations it makes. Only the general remix
\* builds a Vec, `Vec::with_capacity( src_ch )`, once per frame processed.
PopAllocations(b, out_len) ==
    LET src_ch == b.source_channels
        out_ch == b.output_channels
    IN  IF b.paused \/ src_ch = out_ch
           \/ (src_ch = 1 /\ out_ch = 2) \/ (src_ch = 2 /\ out_ch = 1)
        THEN 0
        ELSE FramesToProcess(Len(b.buffer), out_len, src_ch, out_ch)

\* SampleBuffer::pop: the locks it takes; the paused branch returns before
\* `self.buffer.lock()`.
PopLocks(b) == IF b.paused THEN {} ELSE {"buffer"}

\* Mutant: mono to stereo writes the left sample of each frame only.
MonoToStereoLeftOnly(buf, j) == IF j % 2 = 0 THEN At(buf, (j \div 2) + 1) ELSE 0

\* pop, 1 -> 2 channels: output[ i * 2 ] and output[ i * 2 + 1 ] are the
\* i-th sample popped; j is the output index from 0.
MonoToStereo(buf, j) == At(buf, (j \div 2) + 1)

\* pop, 2 -> 1 channels: ( left + right ) * 0.5
MixDown(left, right) == (left + right) \div 2

\* Mutant: an output channel the source lacks repeats the first channel.
RemixFirstChannel(ch, src_ch) == IF ch < src_ch THEN ch ELSE 0

\* pop, general case: the source channel written to output channel ch.
RemixChannel(ch, src_ch) == IF ch < src_ch THEN ch ELSE src_ch - 1

\* pop: `*sample *= volume`, the volume in percent.
ApplyVolume(x, vol) == (x * vol) \div 100

\* SampleBuffer::pop: the output slice afterwards. An element no loop of
\* pop writes keeps its stale content, written -1 here.
PopOutput(b, out_len) ==
    LET buf == b.buffer
        src_ch == b.source_channels
        out_ch == b.output_channels
        written == PopWritten(b, out_len)
        stale == -1
        conv(j) ==
            IF src_ch = out_ch THEN At(buf, j + 1)
            ELSE IF src_ch = 1 /\ out_ch = 2 THEN MonoToStereo(buf, j)
            ELSE IF src_ch = 2 /\ out_ch = 1
            THEN MixDown(At(buf, 2 * j + 1), At(buf, 2 * j + 2))
            ELSE At(buf, (j \div out_ch) * src_ch
                           + RemixChannel(j % out_ch, src_ch) + 1)
        raw(j) ==
            IF j < written THEN conv(j)
            ELSE IF j >= SilenceFrom(b, out_len) THEN 0
            ELSE stale
    IN  IF b.paused
        THEN [i \in 1..out_len |-> 0]
        ELSE [i \in 1..out_len |->
                IF i - 1 < written /\ b.vol # 100
                THEN ApplyVolume(raw(i - 1), b.vol)
                ELSE raw(i - 1)]

\* ------------------------------------------------------------- AudioOutput
\* AudioOutput::new: the stream configuration chosen for a source, in the
\* code's order: exact match, same rate with any channels, device default.
RateFits(c, rate) == c.min_rate <= rate /\ c.max_rate >= rate

ChooseConfig(rate, channels) ==
    LET exact == { i \in 1..Len(DeviceConfigs) :
                     DeviceConfigs[i].channels = channels
                     /\ RateFits(DeviceConfigs[i], rate) }
        same  == { i \in 1..Len(DeviceConfigs) : RateFits(DeviceConfigs[i], rate) }
        First(S) == CHOOSE i \in S : \A j \in S : i <= j
    IN  IF exact # {}
        THEN [channels |-> DeviceConfigs[First(exact)].channels, rate |-> rate]
        ELSE IF same # {}
        THEN [channels |-> DeviceConfigs[First(same)].channels, rate |-> rate]
        ELSE DeviceDefault

\* AudioOutput::new: buffer_capacity, about half a second of source audio.
BufferCapacity(rate, channels) == (rate * channels) \div 2

\* decode_loop: target_buffer, the backpressure threshold.
TargetBuffer(rate, channels) == (rate * channels) \div 20

\* ---------------------------------------------------------------- Playlist
RepeatModes == {"Off", "One", "All"}

\* Vec::swap on a sequence holding 0-based indices at 0-based positions.
Swap(order, i, j) ==
    [k \in 1..Len(order) |->
        IF k = i + 1 THEN order[j + 1]
        ELSE IF k = j + 1 THEN order[i + 1]
        ELSE order[k]]

\* The Fisher-Yates loop of regenerate_shuffle_order from position i down to
\* 1; the hash that picks j is seeded at random, so j is any of 0..i.
RECURSIVE FisherYates(_, _)
FisherYates(order, i) ==
    IF i < 1
    THEN {order}
    ELSE UNION { FisherYates(Swap(order, i, j), i - 1) : j \in 0..i }

\* Mutant: the shuffle order is not rebuilt.
RegenerateSkipped(pl) == { pl }

\* regenerate_shuffle_order: the playlists it can leave.
RegenerateShuffleOrder(pl) ==
    LET identity == [k \in 1..Len(pl.tracks) |-> k - 1]
    IN  { [pl EXCEPT !.shuffle_order = o, !.shuffle_position = 0] :
            o \in FisherYates(identity, Len(pl.tracks) - 1) }

\* Vec::get
Get(seq, i) == IF i >= 0 /\ i < Len(seq) THEN Some(seq[i + 1]) ELSE None

\* Playlist::current
Current(pl) ==
    IF IsSome(pl.current_index)
    THEN Get(pl.tracks, Unwrap(pl.current_index))
    ELSE None

\* Mutant: a missing index counts as the place before the default.
UnwrapOrBefore(o, d) == IF IsSome(o) THEN Unwrap(o) ELSE d - 1

\* Option::unwrap_or
UnwrapOr(o, d) == IF IsSome(o) THEN Unwrap(o) ELSE d

\* Mutant: next()/previous() return the track that was current before the
\* index moved.
MovedReturnsOld(pl, index) ==
    [pl |-> [pl EXCEPT !.current_index = index], ret |-> Current(pl)]

\* A result of next()/previous(): the playlist afterwards, the returned track.
Moved(pl, index) ==
    LET q == [pl EXCEPT !.current_index = index]
    IN  [pl |-> q, ret |-> Current(q)]

\* Mutant: the end-of-permutation test of next() is `>` for `>=`.
PastEndStrict(pl) == pl.shuffle_position > Len(pl.shuffle_order)

\* next(), shuffle on: `self.shuffle_position >= self.shuffle_order.len()`
PastEnd(pl) == pl.shuffle_position >= Len(pl.shuffle_order)

\* Playlist::next: the set of its possible results.
PlaylistNext(pl) ==
    IF Len(pl.tracks) = 0
    THEN { [pl |-> pl, ret |-> None] }
    ELSE IF pl.shuffle
    THEN LET p1 == [pl EXCEPT !.shuffle_position = @ + 1]
         IN  IF PastEnd(p1)
             THEN CASE pl.repeat = "Off" -> { [pl |-> p1, ret |-> None] }
                    [] pl.repeat = "All" ->
                         { Moved(q, Get(q.shuffle_order, q.shuffle_position)) :
                             q \in RegenerateShuffleOrder(p1) }
                    [] pl.repeat = "One" ->
                         LET q == [p1 EXCEPT !.shuffle_position = @ - 1]
                         IN  { Moved(q, Get(q.shuffle_order, q.shuffle_position)) }
             ELSE { Moved(p1, Get(p1.shuffle_order, p1.shuffle_position)) }
    ELSE IF pl.repeat = "One"
    THEN { Moved(pl, pl.current_index) }
    ELSE LET current == UnwrapOr(pl.current_index, 0)
             next == current + 1
         IN  IF next >= Len(pl.tracks)
             THEN IF pl.repeat = "Off"
                  THEN { [pl |-> pl, ret |-> None] }
                  ELSE { Moved(pl, Some(0)) }
             ELSE { Moved(pl, Some(next)) }

\* Mutant: previous() wraps to the last track in every repeat mode.
PreviousIndexWraps(pl) ==
    LET current == UnwrapOr(pl.current_index, 0)
    IN  IF current > 0 THEN Some(current - 1) ELSE Some(Len(pl.tracks) - 1)

\* Mutant: previous() stays at the first track in every repeat mode.
PreviousIndexStays(pl) ==
    LET current == UnwrapOr(pl.current_index, 0)
    IN  IF current > 0 THEN Some(current - 1) ELSE Some(0)

\* previous(), shuffle off: prev_index
PreviousIndex(pl) ==
    LET current == UnwrapOr(pl.current_index, 0)
    IN  IF current > 0
        THEN Some(current - 1)
        ELSE IF pl.repeat = "All"
        THEN Some(Len(pl.tracks) - 1)
        ELSE Some(0)

\* Playlist::previous: the set of its possible results (always one).
PlaylistPrevious(pl) ==
    IF Len(pl.tracks) = 0
    THEN { [pl |-> pl, ret |-> None] }
    ELSE IF pl.shuffle
    THEN IF pl.shuffle_position > 0
         THEN LET q == [pl EXCEPT !.shuffle_position = @ - 1]
              IN  { Moved(q, Get(q.shuffle_order, q.shuffle_position)) }
         ELSE { Moved(pl, Get(pl.shuffle_order, 0)) }
    ELSE { Moved(pl, PreviousIndex(pl)) }

\* Playlist::new
PlaylistNew ==
    [ tracks |-> <<>>, current_index |-> None, shuffle |-> FALSE,
      repeat |-> "Off", shuffle_order |-> <<>>, shuffle_position |-> 0 ]

\* Vec::remove and Vec::insert at a 0-based index
VecRemove(seq, i) == SubSeq(seq, 1, i) \o SubSeq(seq, i + 2, Len(seq))
VecInsert(seq, i, x) == SubSeq(seq, 1, i) \o << x >> \o SubSeq(seq, i + 1, Len(seq))

\* Playlist::add
PlaylistAdd(pl, path) ==
    { [pl |-> q, ret |-> None] :
        q \in RegenerateShuffleOrder([pl EXCEPT !.tracks = Append(@, path)]) }

\* Playlist::add_many
PlaylistAddMany(pl, paths) ==
    { [pl |-> q, ret |-> None] :
        q \in RegenerateShuffleOrder([pl EXCEPT !.tracks = @ \o paths]) }

\* Playlist::clear
PlaylistClear(pl) ==
    { [pl |-> [pl EXCEPT !.tracks = <<>>, !.current_index = None,
                         !.shuffle_order = <<>>, !.shuffle_position = 0],
       ret |-> None] }

\* Mutant: remove() keeps current_index when the current track is removed.
RemovedIndexKept(current, index) ==
    IF index < current THEN Some(current - 1) ELSE Some(current)

\* remove(): the adjusted current_index
RemovedIndex(current, index) ==
    IF index < current THEN Some(current - 1)
    ELSE IF index = current THEN None
    ELSE Some(current)

\* Playlist::remove
PlaylistRemove(pl, index) ==
    IF index >= Len(pl.tracks)
    THEN { [pl |-> pl, ret |-> None] }
    ELSE LET removed == pl.tracks[index + 1]
             p1 == [pl EXCEPT !.tracks = VecRemove(@, index),
                              !.current_index =
                                  IF IsSome(@) THEN RemovedIndex(Unwrap(@), index)
                                  ELSE @]
         IN  { [pl |-> q, ret |-> Some(removed)] : q \in RegenerateShuffleOrder(p1) }

\* Mutant: jump_to() also moves the shuffle cursor to the chosen track.
PlaylistJumpToMovesCursor(pl, index) ==
    IF index < Len(pl.tracks)
    THEN LET at == CHOOSE c \in 1..Len(pl.shuffle_order) :
                       pl.shuffle_order[c] = index
         IN  { Moved([pl EXCEPT !.shuffle_position = at - 1], Some(index)) }
    ELSE { [pl |-> pl, ret |-> None] }

\* Playlist::jump_to
PlaylistJumpTo(pl, index) ==
    IF index < Len(pl.tracks)
    THEN { Moved(pl, Some(index)) }
    ELSE { [pl |-> pl, ret |-> None] }

\* Playlist::set_shuffle
PlaylistSetShuffle(pl, shuffle) ==
    IF shuffle # pl.shuffle
    THEN IF shuffle
         THEN { [pl |-> q, ret |-> None] :
                  q \in RegenerateShuffleOrder([pl EXCEPT !.shuffle = shuffle]) }
         ELSE { [pl |-> [pl EXCEPT !.shuffle = shuffle], ret |-> None] }
    ELSE { [pl |-> pl, ret |-> None] }

\* Playlist::set_repeat
PlaylistSetRepeat(pl, repeat) ==
    { [pl |-> [pl EXCEPT !.repeat = repeat], ret |-> None] }

\* Mutant: move_track() shifts the current index down also when the moved
\* track came from behind it.
MovedIndexShifted(current, from, to) ==
    IF current = from THEN Some(to)
    ELSE IF current <= to THEN Some(current - 1)
    ELSE IF to <= current /\ current < from THEN Some(current + 1)
    ELSE Some(current)

\* move_track(): the adjusted current_index
MovedIndex(current, from, to) ==
    IF current = from THEN Some(to)
    ELSE IF from < current /\ current <= to THEN Some(current - 1)
    ELSE IF to <= current /\ current < from THEN Some(current + 1)
    ELSE Some(current)

\* Playlist::move_track
PlaylistMoveTrack(pl, from, to) ==
    IF from >= Len(pl.tracks) \/ to >= Len(pl.tracks)
    THEN { [pl |-> pl, ret |-> FALSE] }
    ELSE IF from = to
    THEN { [pl |-> pl, ret |-> TRUE] }
    ELSE LET track == pl.tracks[from + 1]
             p1 == [pl EXCEPT !.tracks = VecInsert(VecRemove(@, from), to, track),
                              !.current_index =
                                  IF IsSome(@) THEN MovedIndex(Unwrap(@), from, to)
                                  ELSE @]
         IN  { [pl |-> q, ret |-> TRUE] : q \in RegenerateShuffleOrder(p1) }

\* dedup(): the drain loop from old_idx on; `seen` is the HashSet,
\* index_map the ( old, new ) pairs in the order pushed.
\* Mutant: the seen set is forgotten whenever a duplicate is dropped.
RECURSIVE DedupLoopForgets(_, _, _, _, _)
DedupLoopForgets(tracks, old_idx, seen, new_tracks, index_map) ==
    IF old_idx >= Len(tracks)
    THEN [new_tracks |-> new_tracks, index_map |-> index_map]
    ELSE LET track == tracks[old_idx + 1]
         IN  IF track \notin seen
             THEN DedupLoopForgets(tracks, old_idx + 1, seen \cup {track},
                                   Append(new_tracks, track),
                                   Append(index_map, << old_idx, Len(new_tracks) >>))
             ELSE DedupLoopForgets(tracks, old_idx + 1, {}, new_tracks, index_map)

RECURSIVE DedupLoop(_, _, _, _, _)
DedupLoop(tracks, old_idx, seen, new_tracks, index_map) ==
    IF old_idx >= Len(tracks)
    THEN [new_tracks |-> new_tracks, index_map |-> index_map]
    ELSE LET track == tracks[old_idx + 1]
         IN  IF track \notin seen
             THEN DedupLoop(tracks, old_idx + 1, seen \cup {track},
                            Append(new_tracks, track),
                            Append(index_map, << old_idx, Len(new_tracks) >>))
             ELSE DedupLoop(tracks, old_idx + 1, seen, new_tracks, index_map)

\* Mutant: dedup() leaves current_index as it was.
DedupIndexUnmapped(index_map, current) == Some(current)

\* dedup(): index_map.iter().find( old == current ).map( new )
DedupIndex(index_map, current) ==
    LET hits == { k \in 1..Len(index_map) : index_map[k][1] = current }
    IN  IF hits = {} THEN None
        ELSE Some(index_map[CHOOSE k \in hits : \A m \in hits : k <= m][2])

\* Playlist::dedup
PlaylistDedup(pl) ==
    LET original_len == Len(pl.tracks)
        done == DedupLoop(pl.tracks, 0, {}, <<>>, <<>>)
        p1 == [pl EXCEPT !.tracks = done.new_tracks,
                         !.current_index =
                             IF IsSome(@) THEN DedupIndex(done.index_map, Unwrap(@))
                             ELSE @]
    IN  { [pl |-> q, ret |-> original_len - Len(q.tracks)] :
            q \in RegenerateShuffleOrder(p1) }

\* ------------------------------------------------------------------ Player
\* Player::new, with the playlist the caller has filled (add a, add b) and
\* the repeat mode it has chosen; shuffle is off.
Init ==
    /\ state = "Stopped"
    /\ current_track = None
    /\ playback = None
    /\ volume = 100
    /\ playlist \in { [ tracks |-> <<"a", "b">>, current_index |-> None,
                        shuffle |-> FALSE, repeat |-> r,
                        shuffle_order |-> <<0, 1>>, shuffle_position |-> 0 ] :
                      r \in {"Off", "All"} }
    /\ sess = [s \in Slots |-> FreeSess]
    /\ thr = [s \in Slots |-> NoThread]
    /\ ctl = IdleCtl
    /\ call = NoCall

ThreadOver(s) == thr[s].pc \in {"none", "done"}

\* A slot is free when neither a handle nor a thread refers to its objects.
IsFree(s) == ~sess[s].handle /\ ~sess[s].stream /\ thr[s].pc = "none"

\* The locks the control thread holds across steps: stop() keeps the write
\* guard on `playback` from its first line to its return.
CtlHolds(c) ==
    IF c.pc \in {"stop_flag", "stop_clear", "stop_join"}
    THEN {"playback"}
    ELSE {}

\* Mutant: stop() forgets the write to state.
StateAfterStopKept == state

\* stop(): the value written to state.
StateAfterStop == "Stopped"

\* Mutant: stop() forgets to clear current_track.
TrackAfterStopKept == current_track

\* stop(): the value written to current_track.
TrackAfterStop == None

\* Where an operation goes once its stop() part is over.
AfterStop(c) ==
    IF c.op = "stop"
    THEN [c EXCEPT !.pc = "ret", !.res = "ok"]
    ELSE [c EXCEPT !.pc = "open", !.h = None]

\* stop(), `playback.take()`: with no session the rest of stop() runs at
\* once; with one, the handle moves into the local and the steps follow.
StopEnter(c) ==
    IF playback = None
    THEN /\ state' = StateAfterStop
         /\ current_track' = TrackAfterStop
         /\ ctl' = AfterStop(c)
         /\ UNCHANGED << playback, sess, thr >>
    ELSE /\ playback' = None
         /\ ctl' = [c EXCEPT !.pc = "stop_flag", !.h = playback]
         /\ UNCHANGED << state, current_track, sess, thr >>

\* stop(): handle.stop_flag.store( true )
StopFlag ==
    /\ ctl.pc = "stop_flag"
    /\ sess' = [sess EXCEPT ![Unwrap(ctl.h)].stop_flag = TRUE]
    /\ ctl' = [ctl EXCEPT !.pc = "stop_clear"]
    /\ UNCHANGED << state, current_track, playback, volume, playlist, thr >>
    /\ UNCHANGED call

\* stop(): handle.sample_buffer.clear()
StopClear ==
    /\ ctl.pc = "stop_clear"
    /\ sess' = [sess EXCEPT ![Unwrap(ctl.h)].buffer = <<>>]
    /\ ctl' = [ctl EXCEPT !.pc = "stop_join"]
    /\ UNCHANGED << state, current_track, playback, volume, playlist, thr >>
    /\ UNCHANGED call

\* Mutant: stop() drops the thread handle without joining.
JoinSkipped(s) == TRUE

\* stop(): thread.join() returns once the decode thread has exited.
JoinReady(s) == thr[s].pc = "done"

\* stop(): join, drop the handle (which stops the device stream), then
\* write state and current_track.
StopJoin ==
    /\ ctl.pc = "stop_join"
    /\ LET s == Unwrap(ctl.h) IN
        /\ JoinReady(s)
        /\ IF thr[s].pc = "done"
           THEN sess' = [sess EXCEPT ![s] = FreeSess]
                /\ thr' = [thr EXCEPT ![s] = NoThread]
           ELSE sess' = [sess EXCEPT ![s].handle = FALSE, ![s].stream = FALSE]
                /\ UNCHANGED thr
    /\ state' = StateAfterStop
    /\ current_track' = TrackAfterStop
    /\ ctl' = AfterStop(ctl)
    /\ UNCHANGED << playback, volume, playlist >>
    /\ UNCHANGED call

\* Player::stop
Stop ==
    /\ ctl.pc = "idle"
    /\ StopEnter([IdleCtl EXCEPT !.op = "stop", !.before = state])
    /\ UNCHANGED << volume, playlist >>
    /\ UNCHANGED call

\* Mutant: play() opens the source before its stop(), so a failed open
\* returns with the previous session still in place.
PlayOpensFirst(p) ==
    /\ ctl.pc = "idle"
    /\ \/ StopEnter([IdleCtl EXCEPT !.op = "play", !.path = Some(p), !.before = state])
       \/ /\ ctl' = [IdleCtl EXCEPT !.op = "play", !.path = Some(p), !.before = state,
                                     !.pc = "ret", !.res = "err"]
          /\ UNCHANGED << state, current_track, playback, sess, thr >>
    /\ UNCHANGED << volume, playlist >>
    /\ UNCHANGED call

\* Player::play, up to and including the take of its stop()
Play(p) ==
    /\ ctl.pc = "idle"
    /\ StopEnter([IdleCtl EXCEPT !.op = "play", !.path = Some(p), !.before = state])
    /\ UNCHANGED << volume, playlist >>
    /\ UNCHANGED call

\* Player::seek, its capture step: NoTrack without a current track, else
\* remember the track and whether the state is Playing, and enter stop().
Seek(pos) ==
    /\ ctl.pc = "idle"
    /\ IF current_track = None
       THEN /\ ctl' = [IdleCtl EXCEPT !.op = "seek", !.pos = pos, !.before = state,
                                      !.pc = "ret", !.res = "NoTrack"]
            /\ UNCHANGED << state, current_track, playback, sess, thr >>
       ELSE StopEnter([IdleCtl EXCEPT !.op = "seek", !.pos = pos,
                                      !.path = current_track, !.before = state])
    /\ UNCHANGED << volume, playlist >>
    /\ UNCHANGED call

\* Player::play_next / play_previous: advance the playlist, then play().
PlayFrom(results, op) ==
    /\ ctl.pc = "idle"
    /\ \E r \in results :
        /\ playlist' = r.pl
        /\ IF r.ret = None
           THEN /\ ctl' = [IdleCtl EXCEPT !.op = op, !.before = state,
                                          !.pc = "ret", !.res = "false"]
                /\ UNCHANGED << state, current_track, playback, sess, thr >>
           ELSE StopEnter([IdleCtl EXCEPT !.op = op, !.path = r.ret, !.before = state])
    /\ UNCHANGED volume
    /\ UNCHANGED call

PlayNext == PlayFrom(PlaylistNext(playlist), "play_next")

PlayPrevious == PlayFrom(PlaylistPrevious(playlist), "play_previous")

\* Mutant: seek() starts the counter at 0 as play() does.
SeekFramesZero(pos, rate) == 0

\* seek(): seek_frames, the frame the position falls in (the `as u64` floor).
SeekFrames(pos, rate) == (pos * rate) \div TicksPerSec

\* play()/seek(): the initial value of the session's frames_played.
InitialFrames(c) ==
    IF c.op = "seek"
    THEN SeekFrames(c.pos, SourceRate(Unwrap(c.path)))
    ELSE 0

\* seek(): "start paused if we were paused before" is `!was_playing`.
StartsPaused(c) == c.op = "seek" /\ c.before # "Playing"

\* play()/seek(): the state written last.
FinalState(c) ==
    IF c.op = "seek" /\ c.before # "Playing" THEN "Paused" ELSE "Playing"

\* Mutant: the flag outlives the session: a session started while the state
\* is Stopped begins with the flag its predecessor left.
TrackEndedInherited(c) == c.before = "Stopped"

\* play()/seek(): `track_ended = Arc::new( AtomicBool::new( false ) )`, a
\* fresh flag for every session.
InitialTrackEnded(c) == FALSE

\* The session objects play()/seek() build for a path before spawning.
NewSess(c) ==
    LET p == Unwrap(c.path)
        cfg == ChooseConfig(SourceRate(p), SourceChannels(p))
    IN  [ handle |-> TRUE, stream |-> TRUE, stop_flag |-> FALSE,
          paused |-> StartsPaused(c), buffer |-> <<>>,
          capacity |-> BufferCapacity(SourceRate(p), SourceChannels(p)),
          vol |-> volume,
          source_channels |-> SourceChannels(p),
          output_channels |-> cfg.channels,
          frames_played |-> InitialFrames(c),
          sample_rate |-> SourceRate(p), track_ended |-> InitialTrackEnded(c),
          ended_on_empty |-> FALSE ]

\* The decode thread as spawned: it owns the decoder, positioned at the
\* start (play) or at the seek target (seek), and the optional resampler.
NewThread(c) ==
    LET p == Unwrap(c.path)
        cfg == ChooseConfig(SourceRate(p), SourceChannels(p))
    IN  [ pc |-> "chk_stop", path |-> p,
          cursor |-> Min(InitialFrames(c), SourceFrames(p)),
          resample |-> SourceRate(p) # cfg.rate,
          resample_input |-> 0, out |-> <<>>, offset |-> 0, eof |-> FALSE,
          exit |-> "" ]

\* Mutant: the failing call comes after thread::spawn, so the error return
\* leaves a decode thread behind.
OpenFailAfterSpawn ==
    /\ ctl.pc = "open"
    /\ \E s \in Slots :
        /\ IsFree(s)
        /\ sess' = [sess EXCEPT ![s] = [NewSess(ctl) EXCEPT !.handle = FALSE,
                                                             !.stream = FALSE]]
        /\ thr' = [thr EXCEPT ![s] = NewThread(ctl)]
    /\ ctl' = [ctl EXCEPT !.pc = "ret", !.res = "err"]
    /\ UNCHANGED << state, current_track, playback, volume, playlist >>
    /\ UNCHANGED call

\* play()/seek() after stop(): any of Decoder::open, Decoder::seek,
\* AudioOutput::new, output.play() or the resampler constructor fails and
\* the `?` returns the error; everything built so far is dropped.
OpenFail ==
    /\ ctl.pc = "open"
    /\ ctl' = [ctl EXCEPT !.pc = "ret", !.res = "err"]
    /\ UNCHANGED << state, current_track, playback, volume, playlist, sess, thr >>
    /\ UNCHANGED call

\* play()/seek() after stop(): all of them succeed; the stream starts and
\* the decode thread is spawned.
OpenSpawn ==
    /\ ctl.pc = "open"
    /\ \E s \in Slots :
        /\ IsFree(s)
        /\ \A t \in Slots : IsFree(t) => s <= t
        /\ sess' = [sess EXCEPT ![s] = NewSess(ctl)]
        /\ thr' = [thr EXCEPT ![s] = NewThread(ctl)]
        /\ ctl' = [ctl EXCEPT !.pc = "store", !.h = Some(s)]
    /\ UNCHANGED << state, current_track, playback, volume, playlist >>
    /\ UNCHANGED call

\* play()/seek(): store the PlaybackHandle, then current_track.
Store ==
    /\ ctl.pc = "store"
    /\ playback' = ctl.h
    /\ current_track' = ctl.path
    /\ ctl' = [ctl EXCEPT !.pc = "set_state"]
    /\ UNCHANGED << state, volume, playlist, sess, thr >>
    /\ UNCHANGED call

\* play()/seek(): the last write, to state; then Ok.
SetState ==
    /\ ctl.pc = "set_state"
    /\ state' = FinalState(ctl)
    /\ ctl' = [ctl EXCEPT !.pc = "ret",
                          !.res = IF ctl.op \in {"play", "seek"} THEN "ok" ELSE "true"]
    /\ UNCHANGED << current_track, playback, volume, playlist, sess, thr >>
    /\ UNCHANGED call

\* Mutant: pause() also drops the audio already buffered.
PauseClearsBuffer ==
    /\ ctl.pc = "idle"
    /\ IF IsSome(playback)
       THEN /\ sess' = [sess EXCEPT ![Unwrap(playback)].paused = TRUE,
                                    ![Unwrap(playback)].buffer = <<>>]
            /\ state' = "Paused"
       ELSE UNCHANGED << sess, state >>
    /\ ctl' = [IdleCtl EXCEPT !.op = "pause", !.before = state,
                              !.pc = "ret", !.res = "ok"]
    /\ UNCHANGED << current_track, playback, volume, playlist, thr >>
    /\ UNCHANGED call

\* Player::pause
Pause ==
    /\ ctl.pc = "idle"
    /\ IF IsSome(playback)
       THEN /\ sess' = [sess EXCEPT ![Unwrap(playback)].paused = TRUE]
            /\ state' = "Paused"
       ELSE UNCHANGED << sess, state >>
    /\ ctl' = [IdleCtl EXCEPT !.op = "pause", !.before = state,
                              !.pc = "ret", !.res = "ok"]
    /\ UNCHANGED << current_track, playback, volume, playlist, thr >>
    /\ UNCHANGED call

\* Player::resume
Resume ==
    /\ ctl.pc = "idle"
    /\ IF IsSome(playback)
       THEN /\ sess' = [sess EXCEPT ![Unwrap(playback)].paused = FALSE]
            /\ state' = "Playing"
       ELSE UNCHANGED << sess, state >>
    /\ ctl' = [IdleCtl EXCEPT !.op = "resume", !.before = state,
                              !.pc = "ret", !.res = "ok"]
    /\ UNCHANGED << current_track, playback, volume, playlist, thr >>
    /\ UNCHANGED call

\* Mutant: set_volume() stores the value for later sessions only.
SetVolumeStoredOnly(v) ==
    /\ ctl.pc = "idle"
    /\ volume' = v
    /\ ctl' = [IdleCtl EXCEPT !.op = "set_volume", !.before = state,
                              !.pc = "ret", !.res = "ok"]
    /\ UNCHANGED << state, current_track, playback, playlist, sess, thr >>
    /\ UNCHANGED call

\* Player::set_volume
SetVolume(v) ==
    /\ ctl.pc = "idle"
    /\ volume' = v
    /\ IF IsSome(playback)
       THEN sess' = [sess EXCEPT ![Unwrap(playback)].vol = v]
       ELSE UNCHANGED sess
    /\ ctl' = [IdleCtl EXCEPT !.op = "set_volume", !.before = state,
                              !.pc = "ret", !.res = "ok"]
    /\ UNCHANGED << state, current_track, playback, playlist, thr >>
    /\ UNCHANGED call

\* The operation has returned; the caller goes on to its next one.
Return ==
    /\ ctl.pc = "ret"
    /\ ctl' = IdleCtl
    /\ UNCHANGED << state, current_track, playback, volume, playlist, sess, thr >>
    /\ UNCHANGED call

\* ------------------------------------------------------------- decode_loop
Running(s) == ~ThreadOver(s)

\* The thread leaves decode_loop.  Its Arc clones go with it: if the handle
\* was dropped already, nothing refers to the session objects any more.
Exit(s, why) ==
    IF sess[s].handle \/ sess[s].stream
    THEN /\ thr' = [thr EXCEPT ![s].pc = "done", ![s].exit = why,
                               ![s].out = <<>>, ![s].offset = 0]
         /\ UNCHANGED sess
    ELSE /\ thr' = [thr EXCEPT ![s] = NoThread]
         /\ sess' = [sess EXCEPT ![s] = FreeSess]

\* Mutant: the pause check comes first, so a paused loop never sees stop.
StopRequestedUnlessPaused(s) == sess[s].stop_flag /\ ~sess[s].paused

\* The loop head's test of the stop flag.
StopRequested(s) == sess[s].stop_flag

\* loop head: `if stop_flag.load() { break }`
ChkStop(s) ==
    /\ thr[s].pc = "chk_stop"
    /\ IF StopRequested(s)
       THEN Exit(s, "stop")
       ELSE /\ thr' = [thr EXCEPT ![s].pc = "chk_pause"]
            /\ UNCHANGED sess
    /\ UNCHANGED << state, current_track, playback, volume, playlist, ctl >>
    /\ UNCHANGED call

\* Mutant: the loop does not look at the paused flag.
ChkPauseSkipped(s) ==
    /\ thr[s].pc = "chk_pause"
    /\ thr' = [thr EXCEPT ![s].pc = "chk_len"]
    /\ UNCHANGED << state, current_track, playback, volume, playlist, sess, ctl >>
    /\ UNCHANGED call

\* `if sample_buffer.is_paused() { sleep; continue }`
ChkPause(s) ==
    /\ thr[s].pc = "chk_pause"
    /\ thr' = [thr EXCEPT ![s].pc = IF sess[s].paused THEN "chk_stop" ELSE "chk_len"]
    /\ UNCHANGED << state, current_track, playback, volume, playlist, sess, ctl >>
    /\ UNCHANGED call

\* `if sample_buffer.len() > target_buffer { sleep; continue }`
ChkLen(s) ==
    /\ thr[s].pc = "chk_len"
    /\ LET p == thr[s].path IN
       thr' = [thr EXCEPT ![s].pc =
                 IF Len(sess[s].buffer) > TargetBuffer(SourceRate(p), SourceChannels(p))
                 THEN "chk_stop" ELSE "decode"]
    /\ UNCHANGED << state, current_track, playback, volume, playlist, sess, ctl >>
    /\ UNCHANGED call

\* The frames decode_next returns at most: a packet of the file's codec.
LongChunkFrames == 11
PathChunk(p) == IF p = "c" THEN LongChunkFrames ELSE ChunkFrames

\* The interleaved samples of frames cursor+1 .. cursor+n of a source with
\* ch channels, each sample named by its place in the stream.
ChunkSamples(cursor, n, ch) == [i \in 1..(n * ch) |-> cursor * ch + i]

\* What the resampler returns for k calls: k chunks of OutChunkFrames frames
\* (new sample values, written 0).
Resampled(k, ch) == [i \in 1..(k * OutChunkFrames * ch) |-> 0]

\* Mutant: the position counter is advanced by the frames that come out of
\* the resampler.
FramesInOutput(samples, output, ch) == Len(output) \div ch

\* decode loop: `samples.len() / channels`, the frames of the decoded chunk,
\* added to frames_played before the chunk is resampled.
FramesInChunk(samples, output, ch) == Len(samples) \div ch

\* decode_next() = Ok(Some(samples)): count the source frames, resample if
\* needed (each process() call may fail, which ends the inner loop with the
\* input put back), and go to the push loop unless there is nothing to push.
DecodeSome(s) ==
    /\ thr[s].pc = "decode"
    /\ thr[s].cursor < SourceFrames(thr[s].path)
    /\ LET t == thr[s]
           ch == SourceChannels(t.path)
           n == Min(PathChunk(t.path), SourceFrames(t.path) - t.cursor)
           samples == ChunkSamples(t.cursor, n, ch)
           have == t.resample_input + n
       IN  \E k \in 0..(have \div InputFramesNext) :
                /\ t.resample \/ k = 0
                /\ LET output == IF t.resample THEN Resampled(k, ch) ELSE samples
                   IN  /\ sess' = [sess EXCEPT ![s].frames_played =
                                      @ + FramesInChunk(samples, output, ch)]
                       /\ thr' = [thr EXCEPT
                          ![s].cursor = t.cursor + n,
                          ![s].resample_input =
                              IF t.resample THEN have - k * InputFramesNext ELSE 0,
                          ![s].out = output,
                          ![s].offset = 0,
                          ![s].pc = IF Len(output) = 0 THEN "chk_stop" ELSE "push_chk"]
    /\ UNCHANGED << state, current_track, playback, volume, playlist, ctl >>
    /\ UNCHANGED call

\* decode_next() = Ok(None): flush the resampler remainder with
\* process_partial (which may fail), then go to the drain wait.
DecodeEof(s) ==
    /\ thr[s].pc = "decode"
    /\ thr[s].cursor = SourceFrames(thr[s].path)
    /\ LET t == thr[s]
           ch == SourceChannels(t.path)
       IN  \E ok \in BOOLEAN :
             /\ (t.resample /\ t.resample_input > 0) \/ ~ok
             /\ thr' = [thr EXCEPT
                   ![s].eof = TRUE,
                   ![s].out = IF ok THEN Resampled(1, ch) ELSE <<>>,
                   ![s].offset = 0,
                   ![s].pc = IF ok THEN "push_chk" ELSE "drain"]
    /\ UNCHANGED << state, current_track, playback, volume, playlist, sess, ctl >>
    /\ UNCHANGED call

\* Mutant: a fatal decode error is signalled like the end of the track.
DecodeErrEndsTrack(s) ==
    /\ thr[s].pc = "decode"
    /\ thr' = [thr EXCEPT ![s].pc = "done", ![s].exit = "err",
                          ![s].out = <<>>, ![s].offset = 0]
    /\ sess' = [sess EXCEPT ![s].track_ended = TRUE]
    /\ UNCHANGED << state, current_track, playback, volume, playlist, ctl >>
    /\ UNCHANGED call

\* decode_next() = Err: log and break.
DecodeErr(s) ==
    /\ thr[s].pc = "decode"
    /\ Exit(s, "err")
    /\ UNCHANGED << state, current_track, playback, volume, playlist, ctl >>
    /\ UNCHANGED call

\* push loop: `while offset < len && !stop_flag.load()`
PushChk(s) ==
    /\ thr[s].pc = "push_chk"
    /\ LET t == thr[s] IN
       IF t.offset < Len(t.out) /\ ~sess[s].stop_flag
       THEN thr' = [thr EXCEPT ![s].pc = "push"]
       ELSE thr' = [thr EXCEPT ![s].out = <<>>, ![s].offset = 0,
                               ![s].pc = IF t.eof THEN "drain" ELSE "chk_stop"]
    /\ UNCHANGED << state, current_track, playback, volume, playlist, sess, ctl >>
    /\ UNCHANGED call

\* push loop body: push( &out[ offset.. ] ); offset += pushed; sleep if 0
Push(s) ==
    /\ thr[s].pc = "push"
    /\ LET t == thr[s]
           rest == SubSeq(t.out, t.offset + 1, Len(t.out))
       IN  /\ sess' = [sess EXCEPT ![s].buffer =
                          PushBuffer(sess[s].buffer, sess[s].capacity, rest)]
           /\ thr' = [thr EXCEPT
                 ![s].offset = @ + PushCount(sess[s].buffer, sess[s].capacity, rest),
                 ![s].pc = "push_chk"]
    /\ UNCHANGED << state, current_track, playback, volume, playlist, ctl >>
    /\ UNCHANGED call

\* Mutant: no drain wait before the end-of-stream signal.
DrainOverAtOnce(s) == TRUE

\* drain wait: `while !is_empty() && !stop_flag.load() { sleep }` is left
\* when the buffer is empty or stop was requested.
DrainOver(s) == Len(sess[s].buffer) = 0 \/ sess[s].stop_flag

Drain(s) ==
    /\ thr[s].pc = "drain"
    /\ DrainOver(s)
    /\ thr' = [thr EXCEPT ![s].pc = "set_ended"]
    /\ UNCHANGED << state, current_track, playback, volume, playlist, sess, ctl >>
    /\ UNCHANGED call

\* track_ended.store( true ); ended_on_empty records what the buffer held.
SetEnded(s) ==
    /\ thr[s].pc = "set_ended"
    /\ sess' = [sess EXCEPT ![s].track_ended = TRUE,
                            ![s].ended_on_empty = (Len(sess[s].buffer) = 0)]
    /\ thr' = [thr EXCEPT ![s].pc = "set_state"]
    /\ UNCHANGED << state, current_track, playback, volume, playlist, ctl >>
    /\ UNCHANGED call

\* `*state.write() = Stopped; break`
SetStopped(s) ==
    /\ thr[s].pc = "set_state"
    /\ "state" \notin CtlHolds(ctl)
    /\ state' = "Stopped"
    /\ Exit(s, "eof")
    /\ UNCHANGED << current_track, playback, volume, playlist, ctl >>
    /\ UNCHANGED call

\* ---------------------------------------------------------- device callback
\* The cpal stream calls pop on a slice of n frames while the stream lives.
Callback(s, n) ==
    /\ sess[s].stream
    /\ sess' = [sess EXCEPT ![s].buffer = PopBuffer(sess[s], n * sess[s].output_channels)]
    /\ UNCHANGED << state, current_track, playback, volume, playlist, thr, ctl >>
    /\ UNCHANGED call

\* ------------------------------------------------------------ specification
Control ==
    \/ Stop
    \/ \E p \in Paths : Play(p)
    \/ \E pos \in Positions : Seek(pos)
    \/ PlayNext
    \/ PlayPrevious
    \/ Pause
    \/ Resume
    \/ \E v \in Volumes : SetVolume(v)
    \/ StopFlag
    \/ StopClear
    \/ StopJoin
    \/ OpenFail
    \/ OpenSpawn
    \/ Store
    \/ SetState
    \/ Return

DecodeThread(s) ==
    \/ ChkStop(s)
    \/ ChkPause(s)
    \/ ChkLen(s)
    \/ DecodeSome(s)
    \/ DecodeEof(s)
    \/ DecodeErr(s)
    \/ PushChk(s)
    \/ Push(s)
    \/ Drain(s)
    \/ SetEnded(s)
    \/ SetStopped(s)

Next ==
    \/ Control
    \/ \E s \in Slots : DecodeThread(s)
    \/ \E s \in Slots : \E n \in 1..MaxCallbackFrames : Callback(s, n)

Spec == Init /\ [][Next]_vars

\* The engine playing the file "c" only: one session at a time, without
\* resampling, with play, seek, pause, resume and stop from the caller.
FifoNext ==
    \/ Stop
    \/ Play("c")
    \/ \E pos \in Positions : Seek(pos)
    \/ Pause
    \/ Resume
    \/ StopFlag
    \/ StopClear
    \/ StopJoin
    \/ OpenFail
    \/ OpenSpawn
    \/ Store
    \/ SetState
    \/ Return
    \/ \E s \in Slots : DecodeThread(s)
    \/ \E s \in Slots : \E n \in 1..MaxCallbackFrames : Callback(s, n)

FifoSpec == Init /\ [][FifoNext]_vars

\* ------------------------------------------------------------------ queries
\* No control operation is in progress: the caller can query the engine.
AtRest == ctl.pc \in {"idle", "ret"}

\* The operation that returned last, with nothing issued since.
Returned(op, res) == ctl.pc = "ret" /\ ctl.op = op /\ ctl.res = res

\* Player::track_ended
TrackEnded == IF IsSome(playback) THEN sess[Unwrap(playback)].track_ended ELSE FALSE

\* Player::position, in frames (the Duration is frames / sample_rate)
PositionFrames == IF IsSome(playback) THEN sess[Unwrap(playback)].frames_played ELSE 0

Handles == { s \in Slots : sess[s].handle }
LiveThreads == { s \in Slots : Running(s) }

\* ------------------------------------------------- SampleBuffer on its own
\* One SampleBuffer (in slot 1) driven directly: any channel configuration,
\* any sequence of push, pop, set_paused, set_volume and clear calls, each
\* atomic as the buffer mutex makes them. `call` records a call until its
\* caller has taken the result.
MaxChannels == 3
MaxCapacity == 6
MaxPushLen == 2
MaxOutLen == 6

SampleValues == {200, 400}

SampleSeqs(n) == UNION { [1..k -> SampleValues] : k \in 0..n }

\* SampleBuffer::new
NewBuffer(capacity, source_channels, output_channels) ==
    [FreeSess EXCEPT !.buffer = <<>>, !.capacity = capacity,
                     !.paused = FALSE, !.vol = 100,
                     !.source_channels = source_channels,
                     !.output_channels = output_channels]

BufInit ==
    /\ state = "Stopped"
    /\ current_track = None
    /\ playback = None
    /\ volume = 100
    /\ playlist = [ tracks |-> <<>>, current_index |-> None, shuffle |-> FALSE,
                    repeat |-> "Off", shuffle_order |-> <<>>,
                    shuffle_position |-> 0 ]
    /\ \E capacity \in {1, MaxCapacity}, src_ch \in 1..MaxChannels,
          out_ch \in 1..MaxChannels :
          sess = [s \in Slots |-> IF s = 1
                                  THEN NewBuffer(capacity, src_ch, out_ch)
                                  ELSE FreeSess]
    /\ thr = [s \in Slots |-> NoThread]
    /\ ctl = IdleCtl
    /\ call = NoCall

\* SampleBuffer::push
BufPush(samples) ==
    /\ call = NoCall
    /\ sess' = [sess EXCEPT ![1].buffer =
                   PushBuffer(sess[1].buffer, sess[1].capacity, samples)]
    /\ call' = [NoCall EXCEPT !.op = "push", !.arg = samples,
                   !.ret = PushCount(sess[1].buffer, sess[1].capacity, samples),
                   !.before = sess[1]]
    /\ UNCHANGED << state, current_track, playback, volume, playlist, thr, ctl >>

\* SampleBuffer::pop on an output slice of out_len samples
BufPop(out_len) ==
    /\ call = NoCall
    /\ sess' = [sess EXCEPT ![1].buffer = PopBuffer(sess[1], out_len)]
    /\ call' = [NoCall EXCEPT !.op = "pop",
                   !.ret = PopWritten(sess[1], out_len),
                   !.out = PopOutput(sess[1], out_len),
                   !.panicked = PopPanics(sess[1], out_len),
                   !.allocs = PopAllocations(sess[1], out_len),
                   !.locks = PopLocks(sess[1]),
                   !.before = sess[1]]
    /\ UNCHANGED << state, current_track, playback, volume, playlist, thr, ctl >>

\* SampleBuffer::set_paused
BufSetPaused(paused) ==
    /\ call = NoCall
    /\ sess' = [sess EXCEPT ![1].paused = paused]
    /\ call' = [NoCall EXCEPT !.op = "set_paused", !.before = sess[1]]
    /\ UNCHANGED << state, current_track, playback, volume, playlist, thr, ctl >>

\* SampleBuffer::set_volume
BufSetVolume(v) ==
    /\ call = NoCall
    /\ sess' = [sess EXCEPT ![1].vol = v]
    /\ call' = [NoCall EXCEPT !.op = "set_volume", !.before = sess[1]]
    /\ UNCHANGED << state, current_track, playback, volume, playlist, thr, ctl >>

\* SampleBuffer::clear
BufClear ==
    /\ call = NoCall
    /\ sess' = [sess EXCEPT ![1].buffer = <<>>]
    /\ call' = [NoCall EXCEPT !.op = "clear", !.before = sess[1]]
    /\ UNCHANGED << state, current_track, playback, volume, playlist, thr, ctl >>

\* The caller has looked at the result; the next call can be made.
BufReturn ==
    /\ call # NoCall
    /\ call' = NoCall
    /\ UNCHANGED << state, current_track, playback, volume, playlist, sess, thr, ctl >>

BufNext ==
    \/ \E samples \in SampleSeqs(MaxPushLen) : BufPush(samples)
    \/ \E out_len \in 0..MaxOutLen : BufPop(out_len)
    \/ \E paused \in BOOLEAN : BufSetPaused(paused)
    \/ \E v \in Volumes : BufSetVolume(v)
    \/ BufClear
    \/ BufReturn

BufSpec == BufInit /\ [][BufNext]_vars

\* The pop call `call` records, seen from its caller.
Popped == call.op = "pop"
PoppedUnpaused == call.op = "pop" /\ ~call.before.paused

\* ----------------------------------------------------- Playlist on its own
\* One Playlist, created empty, driven by any sequence of its operations.
\* `call` records a call (with the playlist before it) until its caller has
\* taken the result. next() is not called once the shuffle cursor is
\* MaxOvershoot past the permutation. Three specifications share the
\* actions: PlSpec mixes all operations on lists of up to MaxMixedTracks
\* tracks; PlEditSpec has the operations that change the list, and
\* PlNavSpec those that move through a given list, on up to MaxTracks.
MaxTracks == 3
MaxMixedTracks == 2
MaxOvershoot == 1

PathSeqs(n) == UNION { [1..k -> Paths] : k \in 0..n }

PlInit ==
    /\ state = "Stopped"
    /\ current_track = None
    /\ playback = None
    /\ volume = 100
    /\ playlist = PlaylistNew
    /\ sess = [s \in Slots |-> FreeSess]
    /\ thr = [s \in Slots |-> NoThread]
    /\ ctl = IdleCtl
    /\ call = NoCall

\* A call of a Playlist method: one of its results becomes the playlist.
PlApply(op, arg, results) ==
    /\ \E r \in results :
          /\ playlist' = r.pl
          /\ call' = [NoCall EXCEPT !.op = op, !.arg = arg, !.ret = r.ret,
                                    !.before = playlist]
    /\ UNCHANGED << state, current_track, playback, volume, sess, thr, ctl >>

PlAdd(path, limit) ==
    /\ call = NoCall
    /\ Len(playlist.tracks) < limit
    /\ PlApply("add", << path >>, PlaylistAdd(playlist, path))

PlAddMany(paths, limit) ==
    /\ call = NoCall
    /\ Len(playlist.tracks) + Len(paths) <= limit
    /\ PlApply("add_many", paths, PlaylistAddMany(playlist, paths))

PlClear ==
    /\ call = NoCall
    /\ PlApply("clear", <<>>, PlaylistClear(playlist))

PlRemove(index) ==
    /\ call = NoCall
    /\ PlApply("remove", << index >>, PlaylistRemove(playlist, index))

PlMoveTrack(from, to) ==
    /\ call = NoCall
    /\ PlApply("move_track", << from, to >>, PlaylistMoveTrack(playlist, from, to))

PlDedup ==
    /\ call = NoCall
    /\ PlApply("dedup", <<>>, PlaylistDedup(playlist))

PlNext ==
    /\ call = NoCall
    /\ playlist.shuffle_position < Len(playlist.tracks) + MaxOvershoot
    /\ PlApply("next", <<>>, PlaylistNext(playlist))

PlPrevious ==
    /\ call = NoCall
    /\ PlApply("previous", <<>>, PlaylistPrevious(playlist))

PlJumpTo(index) ==
    /\ call = NoCall
    /\ PlApply("jump_to", << index >>, PlaylistJumpTo(playlist, index))

PlSetShuffle(shuffle) ==
    /\ call = NoCall
    /\ PlApply("set_shuffle", << shuffle >>, PlaylistSetShuffle(playlist, shuffle))

PlSetRepeat(repeat) ==
    /\ call = NoCall
    /\ PlApply("set_repeat", << repeat >>, PlaylistSetRepeat(playlist, repeat))

\* The caller has looked at the result; the next call can be made.
PlReturn ==
    /\ call # NoCall
    /\ call' = NoCall
    /\ UNCHANGED << state, current_track, playback, volume, playlist, sess, thr, ctl >>

\* The operations that change the list, with jump_to to set a current
\* track and set_shuffle.
PlEdit(limit) ==
    \/ \E path \in Paths : PlAdd(path, limit)
    \/ \E paths \in PathSeqs(2) : PlAddMany(paths, limit)
    \/ PlClear
    \/ \E index \in 0..limit : PlRemove(index)
    \/ \E from \in 0..limit, to \in 0..limit : PlMoveTrack(from, to)
    \/ PlDedup
    \/ \E index \in 0..limit : PlJumpTo(index)
    \/ \E shuffle \in BOOLEAN : PlSetShuffle(shuffle)

\* The operations that move through the list and set the modes.
PlNav(limit) ==
    \/ PlNext
    \/ PlPrevious
    \/ \E index \in 0..limit : PlJumpTo(index)
    \/ \E shuffle \in BOOLEAN : PlSetShuffle(shuffle)
    \/ \E repeat \in RepeatModes : PlSetRepeat(repeat)

PlSpec ==
    PlInit /\ [][PlEdit(MaxMixedTracks) \/ PlNav(MaxMixedTracks) \/ PlReturn]_vars

PlEditSpec == PlInit /\ [][PlEdit(MaxTracks) \/ PlReturn]_vars

\* A playlist loaded with any list of up to MaxTracks tracks.
PlNavInit ==
    /\ state = "Stopped"
    /\ current_track = None
    /\ playback = None
    /\ volume = 100
    /\ \E paths \in PathSeqs(MaxTracks) :
          \E r \in PlaylistAddMany(PlaylistNew, paths) : playlist = r.pl
    /\ sess = [s \in Slots |-> FreeSess]
    /\ thr = [s \in Slots |-> NoThread]
    /\ ctl = IdleCtl
    /\ call = NoCall

PlNavSpec == PlNavInit /\ [][PlNav(MaxTracks) \/ PlReturn]_vars

\* ------------------------------------------------------------------- claims

\* C1 as stated: whenever the caller can observe the engine, state() is
\* Stopped if and only if no playback session record exists.
C1_StoppedIffNoSession ==
    AtRest => ((state = "Stopped") <=> (playback = None))

\* C1 as amended: with no session the state is Stopped; the state is Stopped
\* with a session still recorded only after that session's decode thread
\* set track_ended at end-of-stream.
C1_NoSessionIsStopped ==
    AtRest =>
        /\ (playback = None => state = "Stopped")
        /\ (state = "Stopped" /\ IsSome(playback) => TrackEnded)

C1_Witness ==
    /\ ctl.pc = "idle"
    /\ state = "Stopped"
    /\ IsSome(playback)
    /\ TrackEnded
    /\ thr[Unwrap(playback)].exit = "eof"

\* C2: the reported state changes only along the documented edges, and
\* pause()/resume() never change it while it is Stopped.
C2_DocumentedEdges ==
    [][ state' # state =>
          \/ /\ state = "Stopped"
             /\ ctl.pc = "set_state"
             /\ ctl'.pc = "ret"
          \/ /\ state = "Playing" /\ state' = "Paused"
             /\ ctl.pc = "idle" /\ ctl'.op = "pause"
          \/ /\ state = "Paused" /\ state' = "Playing"
             /\ ctl.pc = "idle" /\ ctl'.op = "resume"
          \/ /\ state' = "Stopped"
             /\ \/ ctl.pc = "stop_join"
                \/ ctl.pc = "idle" /\ ctl'.op \notin {"pause", "resume"}
                \/ \E s \in Slots : thr[s].pc = "set_state" /\ thr'[s].pc = "done"
      ]_vars

\* C3: a session started by play()/seek() whose decode thread has run to
\* end-of-stream, with no control operation issued since, has track_ended()
\* true and state() Stopped.
C3_EndOfStreamStops ==
    \A op \in {"play", "seek", "play_next", "play_previous"} :
      \A res \in {"ok", "true"} :
        ( /\ Returned(op, res)
          /\ IsSome(playback)
          /\ thr[Unwrap(playback)].pc = "done"
          /\ thr[Unwrap(playback)].exit = "eof" )
        => (TrackEnded /\ state = "Stopped")

\* C4: track_ended() is true only for a session whose decode thread got
\* end-of-stream and found the buffer empty when it set the flag; a session
\* whose stop flag is set is never the one track_ended() reads.
C4_TrackEndedSound ==
    IsSome(playback) =>
        LET s == Unwrap(playback) IN
        /\ ~sess[s].stop_flag
        /\ sess[s].track_ended =>
             /\ thr[s].eof
             /\ thr[s].cursor = SourceFrames(thr[s].path)
             /\ sess[s].ended_on_empty

C4_Witness ==
    /\ TrackEnded
    /\ sess[Unwrap(playback)].frames_played > 0

\* C5: at most one session record exists and at most one decode thread has
\* not terminated.
C5_OneSessionOneThread ==
    /\ Cardinality(Handles) <= 1
    /\ Cardinality(LiveThreads) <= 1
    /\ \A s \in Slots : sess[s].handle \/ ThreadOver(s) \/ ctl.h = Some(s)

\* A second session has been spawned in place of one that was alive.
C5_Witness ==
    /\ ctl.pc = "store"
    /\ ctl.op \in {"play", "seek", "play_next", "play_previous"}
    /\ ctl.before # "Stopped"
    /\ Cardinality(LiveThreads) = 1

\* C6: when stop() has returned there is no session, no decode thread,
\* state() is Stopped and current_track() is None; stop() with no session
\* changes nothing of the engine.
C6_StopPost ==
    Returned("stop", "ok") =>
        /\ playback = None
        /\ Handles = {}
        /\ \A s \in Slots : thr[s].pc = "none" /\ ~sess[s].stream
        /\ state = "Stopped"
        /\ current_track = None

C6_StopContract ==
    /\ []C6_StopPost
    /\ [][ (ctl.pc = "idle" /\ ctl'.op = "stop" /\ playback = None) =>
             /\ ctl'.pc = "ret"
             /\ UNCHANGED << state, current_track, playback, volume, playlist,
                             sess, thr >> ]_vars

\* stop() returned from a session that had ended but was not stopped.
C6_Witness ==
    /\ Returned("stop", "ok")
    /\ ctl.before = "Stopped"
    /\ IsSome(ctl.h)

\* C7: once stop() has set the stop flag the decode thread exits from
\* wherever it is in its loop, so stop() returns; stop() holds no lock the
\* decode thread needs while it joins.
StopPcs == {"stop_flag", "stop_clear", "stop_join"}

C7_StopTerminates ==
    /\ \A s \in Slots : (sess[s].stop_flag /\ Running(s)) ~> ThreadOver(s)
    /\ (ctl.pc \in StopPcs) ~> (ctl.pc \notin StopPcs)
    /\ [](ctl.pc = "stop_join" => CtlHolds(ctl) \cap {"state", "buffer"} = {})

\* Threads get scheduled: a decode thread that can take a step takes one,
\* and so does the control thread inside stop().
FairSpec ==
    /\ Spec
    /\ \A s \in Slots : WF_vars(DecodeThread(s))
    /\ WF_vars(StopFlag \/ StopClear \/ StopJoin)

\* stop() interrupts a drain wait on a paused, non-empty buffer.
C7_Witness ==
    /\ ctl.pc = "stop_clear"
    /\ LET s == Unwrap(ctl.h) IN
        /\ thr[s].pc = "drain"
        /\ sess[s].paused
        /\ Len(sess[s].buffer) > 0

\* C8: a successful seek() leaves state() as it was before the call, and
\* the new buffer paused exactly when that state was Paused.
C8_SeekRestoresState ==
    [][ (ctl.op = "seek" /\ ctl.pc = "set_state" /\ ctl'.pc = "ret") =>
          /\ state' = ctl.before
          /\ sess'[Unwrap(playback)].paused <=> (ctl.before = "Paused")
      ]_vars

\* C9: after a successful seek(p), with nothing issued since, the frame
\* counter is at least floor(p * source_rate), and is exactly that while
\* the state is Paused.
C9_SeekPosition ==
    (Returned("seek", "ok") /\ IsSome(playback)) =>
        LET rate == sess[Unwrap(playback)].sample_rate
            target == CHOOSE f \in 0..(ctl.pos * rate) :
                        /\ f * TicksPerSec <= ctl.pos * rate
                        /\ (f + 1) * TicksPerSec > ctl.pos * rate
        IN  /\ PositionFrames >= target
            /\ state = "Paused" => PositionFrames = target

C9_Witness ==
    /\ Returned("seek", "ok")
    /\ state = "Paused"
    /\ ctl.pos = MaxSeekPos
    /\ PositionFrames > 0
    /\ current_track = Some("b")

\* C10: a seek() that fails after its capture step leaves no session, no
\* decode thread, state() Stopped and current_track() None; the session
\* that `playback` holds is always a complete one.
C10_SeekFailureIsClean ==
    /\ Returned("seek", "err") =>
         /\ playback = None
         /\ Handles = {}
         /\ LiveThreads = {}
         /\ \A s \in Slots : ~sess[s].stream
         /\ state = "Stopped"
         /\ current_track = None
    /\ IsSome(playback) =>
         /\ sess[Unwrap(playback)].handle
         /\ sess[Unwrap(playback)].stream
         /\ thr[Unwrap(playback)].pc # "none"

\* The seek that failed replaced a session that was playing.
C10_Witness ==
    /\ Returned("seek", "err")
    /\ ctl.before = "Playing"

\* C11: when play(path) returns an error there is no session, no decode
\* thread and no open stream, state() is Stopped and current_track() is
\* None; no step of play() writes the stored volume.
C11_PlayFailureIsClean ==
    /\ [](Returned("play", "err") =>
            /\ playback = None
            /\ Handles = {}
            /\ LiveThreads = {}
            /\ \A s \in Slots : ~sess[s].stream
            /\ state = "Stopped"
            /\ current_track = None)
    /\ [][ctl'.op = "play" => volume' = volume]_vars

\* The play that failed replaced a playing session whose volume had been
\* set away from the default.
C11_Witness ==
    /\ Returned("play", "err")
    /\ ctl.before = "Playing"
    /\ volume = 50

\* C12: a pause() or resume() call with a session stored changes only that
\* session's paused flag and the reported state (Paused for pause, Playing
\* for resume): the session record is otherwise the same (stop flag, frame
\* counter, buffered samples), as are every other session, the decode
\* threads, the stored handle, the current track and the volume; with no
\* session stored the call changes nothing.
C12_PauseResumeFrame ==
    [][ (ctl.pc = "idle" /\ ctl'.op \in {"pause", "resume"}) =>
          /\ UNCHANGED << playback, current_track, volume, playlist, thr >>
          /\ IF IsSome(playback)
             THEN /\ sess' = [sess EXCEPT ![Unwrap(playback)].paused =
                                              (ctl'.op = "pause")]
                  /\ state' = IF ctl'.op = "pause" THEN "Paused" ELSE "Playing"
             ELSE UNCHANGED << sess, state >>
      ]_vars

\* A resume() of a paused session whose decode thread is alive, with audio
\* buffered and frames already counted.
C12_Witness ==
    /\ Returned("resume", "ok")
    /\ ctl.before = "Paused"
    /\ IsSome(playback)
    /\ Running(Unwrap(playback))
    /\ sess[Unwrap(playback)].buffer # <<>>
    /\ sess[Unwrap(playback)].frames_played > 0
    /\ ~sess[Unwrap(playback)].paused

\* C13: while a session exists its frame counter never decreases, and it
\* changes only in a decode step of that session's own thread, by exactly
\* the number of source frames that step decoded (whatever the resampler
\* gave back); hence position() read twice on the same stored session does
\* not go down.
C13_FramesMonotone ==
    [][ /\ \A s \in Slots :
            (sess[s].handle /\ sess'[s].handle) =>
              /\ sess'[s].frames_played >= sess[s].frames_played
              /\ (sess'[s].frames_played # sess[s].frames_played
                     \/ thr'[s].cursor # thr[s].cursor) =>
                   /\ thr[s].pc = "decode"
                   /\ sess'[s].frames_played - sess[s].frames_played
                        = thr'[s].cursor - thr[s].cursor
        /\ (IsSome(playback) /\ playback' = playback) =>
              PositionFrames' >= PositionFrames
      ]_vars

\* The resampled track: both frames of its chunk are counted although the
\* resampler has returned nothing yet and nothing was pushed.
C13_Witness ==
    /\ IsSome(playback)
    /\ thr[Unwrap(playback)].path = "b"
    /\ thr[Unwrap(playback)].resample
    /\ thr[Unwrap(playback)].resample_input = 2
    /\ PositionFrames = 2
    /\ sess[Unwrap(playback)].buffer = <<>>

\* C14: play_next() and play_previous() hand the playlist's next() or
\* previous() result to play(). They return Ok(true) exactly when a track
\* was yielded and play() of it succeeded, and then that track is both
\* current_track() and playlist.current() and its session is stored; a
\* yielded track whose play() fails gives the error; with no track yielded
\* they return Ok(false) at once and the session, the state and the current
\* track are as before.
C14_PlayNextContract ==
    /\ [](\A op \in {"play_next", "play_previous"} :
            /\ Returned(op, "true") =>
                 /\ IsSome(ctl.path)
                 /\ current_track = ctl.path
                 /\ current_track = Current(playlist)
                 /\ IsSome(playback) /\ playback = ctl.h
                 /\ thr[Unwrap(playback)].path = Unwrap(ctl.path)
            /\ Returned(op, "err") => IsSome(ctl.path) /\ playback = None
            /\ Returned(op, "false") => ctl.path = None)
    /\ [][ (ctl.pc = "idle" /\ ctl'.op \in {"play_next", "play_previous"}) =>
            /\ \E r \in (IF ctl'.op = "play_next" THEN PlaylistNext(playlist)
                                                  ELSE PlaylistPrevious(playlist)) :
                  /\ playlist' = r.pl
                  /\ ctl'.path = r.ret
                  /\ (r.ret = None) <=> (ctl'.pc = "ret" /\ ctl'.res = "false")
            /\ ctl'.pc = "ret" =>
                  UNCHANGED << state, current_track, playback, sess, thr, volume >>
          ]_vars

\* play_next() wrapped around under repeat All and started the first track.
C14_Witness ==
    /\ Returned("play_next", "true")
    /\ playlist.repeat = "All"
    /\ playlist.current_index = Some(0)
    /\ current_track = Some("a")

\* C15: track_ended() turns true only for the stored session and only
\* through that session's own decode thread reaching end-of-stream: either
\* the thread sets the flag while the session is stored, or play()/seek()
\* stores a session whose thread has already set it. After a successful
\* play(), seek(), play_next() or play_previous() it is therefore true only
\* if the thread of the session just started has ended, and after stop() it
\* is false, so a tick that found it true and started the next track does
\* not find it true again for the track that ended before.
C15_TrackEndedIsFresh ==
    /\ [](Returned("stop", "ok") => ~TrackEnded)
    /\ [](\A op \in {"play", "seek", "play_next", "play_previous"} :
            (ctl.op = op /\ ctl.pc \in {"set_state", "ret"}
               /\ ctl.res \in {"", "ok", "true"} /\ TrackEnded) =>
                 /\ playback = ctl.h
                 /\ thr[Unwrap(ctl.h)].path = Unwrap(ctl.path)
                 /\ thr[Unwrap(ctl.h)].eof
                 /\ thr[Unwrap(ctl.h)].pc \in {"set_state", "done"})
    /\ [][ (TrackEnded' /\ ~TrackEnded) =>
            \E s \in Slots :
              /\ playback' = Some(s)
              /\ thr'[s].eof
              /\ \/ thr[s].pc = "set_ended" /\ thr'[s].pc # "set_ended"
                 \/ /\ ctl.pc = "store" /\ ctl.h = Some(s)
                    /\ sess[s].track_ended
                    /\ thr[s].eof
          ]_vars

\* play_next() out of state Stopped wrapped to the first track: the new
\* session is playing and track_ended() is false again.
C15_Witness ==
    /\ Returned("play_next", "true")
    /\ ctl.before = "Stopped"
    /\ playlist.current_index = Some(0)
    /\ ~TrackEnded
    /\ Running(Unwrap(playback))

\* C16: push(samples) returns min(len(samples), capacity - buffered) and
\* the buffer afterwards is the buffer before followed by exactly that
\* prefix of samples, in order; after any sequence of pushes, pops and the
\* other calls the buffer never holds more samples than its capacity.
C16_PushBounded ==
    /\ Len(sess[1].buffer) <= sess[1].capacity
    /\ call.op = "push" =>
         LET b == call.before
             free == b.capacity - Len(b.buffer)
             n == Len(call.arg)
         IN  /\ call.ret = (IF n < free THEN n ELSE free)
             /\ Len(sess[1].buffer) = Len(b.buffer) + call.ret
             /\ \A i \in 1..Len(b.buffer) : sess[1].buffer[i] = b.buffer[i]
             /\ \A i \in 1..call.ret :
                   sess[1].buffer[Len(b.buffer) + i] = call.arg[i]

\* A push that was cut short: one sample of two different ones fitted
\* behind what was already buffered.
C16_Witness ==
    /\ call.op = "push"
    /\ Len(call.arg) = 2
    /\ call.arg[1] # call.arg[2]
    /\ call.ret = 1
    /\ Len(call.before.buffer) > 1
    /\ Len(sess[1].buffer) = sess[1].capacity

\* C17: a pop on a paused buffer writes zero to every element of the output
\* slice, returns 0 and leaves the buffered samples as they were, whatever
\* the content, the channel counts and the output length.
C17_PausedPopIsSilent ==
    (Popped /\ call.before.paused) =>
        /\ \A i \in 1..Len(call.out) : call.out[i] = 0
        /\ call.ret = 0
        /\ sess[1].buffer = call.before.buffer
        /\ ~call.panicked

\* A paused pop over a full buffer that needs channel conversion.
C17_Witness ==
    /\ Popped
    /\ call.before.paused
    /\ Len(call.before.buffer) = MaxCapacity
    /\ call.before.source_channels # call.before.output_channels
    /\ Len(call.out) = MaxOutLen

\* C18: a pop on an empty, unpaused buffer takes nothing from the queue
\* (no pop_front on an empty queue), writes zero to the whole output slice
\* and returns 0, for every pair of channel counts and every output length.
C18_EmptyPopIsSilent ==
    (PoppedUnpaused /\ call.before.buffer = <<>>) =>
        /\ ~call.panicked
        /\ call.ret = 0
        /\ \A i \in 1..Len(call.out) : call.out[i] = 0
        /\ sess[1].buffer = <<>>

\* An empty pop with conversion over a slice that is longer than a frame and
\* not a whole number of output frames.
C18_Witness ==
    /\ PoppedUnpaused
    /\ call.before.buffer = <<>>
    /\ call.before.source_channels # call.before.output_channels
    /\ Len(call.out) > call.before.output_channels
    /\ Len(call.out) % call.before.output_channels # 0

\* C19: with 1 source channel, 2 output channels, volume 1.0 and N samples
\* buffered, an unpaused pop over 2N output samples writes each buffered
\* sample, in queue order, to both channels of its frame, returns 2N and
\* leaves the buffer empty.
C19_MonoToStereo ==
    (/\ PoppedUnpaused
     /\ call.before.source_channels = 1
     /\ call.before.output_channels = 2
     /\ call.before.vol = 100
     /\ Len(call.out) = 2 * Len(call.before.buffer)) =>
        /\ \A i \in 1..Len(call.before.buffer) :
              /\ call.out[2 * i - 1] = call.before.buffer[i]
              /\ call.out[2 * i] = call.before.buffer[i]
        /\ call.ret = 2 * Len(call.before.buffer)
        /\ sess[1].buffer = <<>>

\* Three buffered mono samples, not all equal, popped into six.
C19_Witness ==
    /\ PoppedUnpaused
    /\ call.before.source_channels = 1
    /\ call.before.output_channels = 2
    /\ call.before.vol = 100
    /\ Len(call.before.buffer) = 3
    /\ call.before.buffer[1] # call.before.buffer[2]
    /\ Len(call.out) = 6
    /\ call.ret = 6

MaxPathLen == 2
MaxFileTracks == 2
PathChars == {"x", "#", " ", "\n", "xFF"}
FilePaths == UNION { [1..k -> PathChars] : k \in 1..MaxPathLen }

\* Path::display: a lossy conversion, an invalid byte becomes U+FFFD.
Display(path) ==
    [k \in 1..Len(path) |-> IF path[k] = "xFF" THEN "uFFFD" ELSE path[k]]

\* Playlist::save: the content of the file it writes.
RECURSIVE PlaylistSave(_)
PlaylistSave(pl) ==
    IF pl.tracks = <<>>
    THEN << "#", "E", "X", "T", "M", "3", "U", "\n" >>
    ELSE LET n == Len(pl.tracks)
         IN  PlaylistSave([pl EXCEPT !.tracks = SubSeq(@, 1, n - 1)])
               \o Display(pl.tracks[n]) \o << "\n" >>

\* BufRead::lines: the file split at line feeds, without them; the text
\* after the last line feed is a line when it is not empty.
RECURSIVE Lines(_)
Lines(file) ==
    LET ends == { k \in 1..Len(file) : file[k] = "\n" }
    IN  IF file = <<>> THEN <<>>
        ELSE IF ends = {} THEN << file >>
        ELSE LET e == CHOOSE k \in ends : \A m \in ends : k <= m
             IN  << SubSeq(file, 1, e - 1) >> \o Lines(SubSeq(file, e + 1, Len(file)))

\* str::trim: the line without its leading and trailing white space.
Trim(line) ==
    LET ink == { k \in 1..Len(line) : line[k] # " " }
    IN  IF ink = {} THEN <<>>
        ELSE SubSeq(line, CHOOSE k \in ink : \A m \in ink : k <= m,
                          CHOOSE k \in ink : \A m \in ink : k >= m)

\* Playlist::load: the playlists it can return for a file (they differ in
\* the shuffle order every add() regenerates).
RECURSIVE LoadLines(_, _, _)
LoadLines(lines, k, pls) ==
    IF k > Len(lines) THEN pls
    ELSE LET trimmed == Trim(lines[k])
         IN  IF trimmed = <<>> \/ trimmed[1] = "#"
             THEN LoadLines(lines, k + 1, pls)
             ELSE LoadLines(lines, k + 1,
                    UNION { { r.pl : r \in PlaylistAdd(pl, trimmed) } : pl \in pls })

PlaylistLoad(file) == LoadLines(Lines(file), 1, { PlaylistNew })

\* save() to a file.
PlSave ==
    /\ call = NoCall
    /\ call' = [NoCall EXCEPT !.op = "save", !.out = PlaylistSave(playlist),
                              !.before = playlist]
    /\ UNCHANGED << state, current_track, playback, volume, playlist, sess, thr, ctl >>

\* load() of the file just saved; the caller replaces its playlist.
PlLoad ==
    /\ call.op = "save"
    /\ \E pl \in PlaylistLoad(call.out) :
          /\ playlist' = pl
          /\ call' = [NoCall EXCEPT !.op = "load", !.arg = call.out,
                                    !.before = playlist]
    /\ UNCHANGED << state, current_track, playback, volume, sess, thr, ctl >>

PlFileSpec ==
    PlInit /\ [][\/ \E path \in FilePaths : PlAdd(path, MaxFileTracks)
                 \/ PlSave \/ PlLoad \/ PlReturn]_vars

\* ------------------------------------------------------------ Commands
\* A command line is a sequence of characters.
\* Command::parse: the arms of `match cmd.as_str()`, with the variant each
\* yields and whether it takes `args.ok_or_else( MissingArgument )`.
CommandTable ==
    UNION {
        { [word |-> w, kind |-> "Add", needs_arg |-> TRUE] :
            w \in { << "a", "d", "d" >>, << "a" >> } },
        { [word |-> w, kind |-> "Remove", needs_arg |-> FALSE] :
            w \in { << "r", "e", "m", "o", "v", "e" >>, << "r", "m" >>, << "d", "e", "l" >> } },
        { [word |-> w, kind |-> "Clear", needs_arg |-> FALSE] :
            w \in { << "c", "l", "e", "a", "r" >>, << "c", "l" >> } },
        { [word |-> w, kind |-> "Dedup", needs_arg |-> FALSE] :
            w \in { << "d", "e", "d", "u", "p" >>, << "d", "e", "d", "u", "p", "e" >>, << "u", "n", "i", "q", "u", "e" >> } },
        { [word |-> w, kind |-> "Save", needs_arg |-> TRUE] :
            w \in { << "s", "a", "v", "e" >> } },
        { [word |-> w, kind |-> "Load", needs_arg |-> TRUE] :
            w \in { << "l", "o", "a", "d" >> } },
        { [word |-> w, kind |-> "Shuffle", needs_arg |-> FALSE] :
            w \in { << "s", "h", "u", "f", "f", "l", "e" >>, << "s", "h" >> } },
        { [word |-> w, kind |-> "Repeat", needs_arg |-> FALSE] :
            w \in { << "r", "e", "p", "e", "a", "t" >>, << "r", "e", "p" >> } },
        { [word |-> w, kind |-> "Goto", needs_arg |-> TRUE] :
            w \in { << "g", "o", "t", "o" >>, << "g", "o" >>, << "c", "d" >> } },
        { [word |-> w, kind |-> "Search", needs_arg |-> TRUE] :
            w \in { << "s", "e", "a", "r", "c", "h" >>, << "f", "i", "n", "d" >>, << "?" >> } },
        { [word |-> w, kind |-> "Home", needs_arg |-> FALSE] :
            w \in { << "h", "o", "m", "e" >>, << "~" >> } },
        { [word |-> w, kind |-> "Play", needs_arg |-> FALSE] :
            w \in { << "p", "l", "a", "y" >>, << "p" >> } },
        { [word |-> w, kind |-> "Pause", needs_arg |-> FALSE] :
            w \in { << "p", "a", "u", "s", "e" >>, << "p", "a" >> } },
        { [word |-> w, kind |-> "Stop", needs_arg |-> FALSE] :
            w \in { << "s", "t", "o", "p" >>, << "s", "t" >> } },
        { [word |-> w, kind |-> "Next", needs_arg |-> FALSE] :
            w \in { << "n", "e", "x", "t" >>, << "n" >> } },
        { [word |-> w, kind |-> "Prev", needs_arg |-> FALSE] :
            w \in { << "p", "r", "e", "v" >>, << "p", "r", "e", "v", "i", "o", "u", "s" >>, << "p", "r" >> } },
        { [word |-> w, kind |-> "Seek", needs_arg |-> TRUE] :
            w \in { << "s", "e", "e", "k" >>, << "s", "k" >> } },
        { [word |-> w, kind |-> "Vis", needs_arg |-> FALSE] :
            w \in { << "v", "i", "s" >>, << "v", "i", "s", "u", "a", "l", "i", "z", "e", "r" >> } },
        { [word |-> w, kind |-> "Volume", needs_arg |-> FALSE] :
            w \in { << "v", "o", "l" >>, << "v", "o", "l", "u", "m", "e" >> } },
        { [word |-> w, kind |-> "Help", needs_arg |-> FALSE] :
            w \in { << "h", "e", "l", "p" >>, << "h" >> } },
        { [word |-> w, kind |-> "Quit", needs_arg |-> FALSE] :
            w \in { << "q", "u", "i", "t" >>, << "q" >>, << "e", "x", "i", "t" >> } } }

\* char::to_lowercase on ASCII letters
ToLower(c) ==
    LET upper == << "A", "B", "C", "D", "E", "F", "G", "H", "I", "J", "K", "L", "M",
                    "N", "O", "P", "Q", "R", "S", "T", "U", "V", "W", "X", "Y", "Z" >>
        lower == << "a", "b", "c", "d", "e", "f", "g", "h", "i", "j", "k", "l", "m",
                    "n", "o", "p", "q", "r", "s", "t", "u", "v", "w", "x", "y", "z" >>
    IN  IF \E k \in 1..26 : upper[k] = c
        THEN lower[CHOOSE k \in 1..26 : upper[k] = c]
        ELSE c

\* str::parse::<u64>().ok(): decimal digits after an optional '+'.  The
\* digit strings drawn here are far below u64::MAX.
ParseU64(str) ==
    LET digits == << "0", "1", "2", "3", "4", "5", "6", "7", "8", "9" >>
        body == IF str # <<>> /\ str[1] = "+" THEN Tail(str) ELSE str
        digit(c) == (CHOOSE k \in 1..10 : digits[k] = c) - 1
        value[k \in 0..Len(body)] ==
            IF k = 0 THEN 0 ELSE value[k - 1] * 10 + digit(body[k])
    IN  IF body = <<>> \/ \E k \in 1..Len(body) : \A d \in 1..10 : digits[d] # body[k]
        THEN None
        ELSE Some(value[Len(body)])

\* What Command::parse returns: the variant or the error, with its number
\* (Seek position in seconds, Volume level) and its text or mode.
Parsed(kind, num, text) == [kind |-> kind, num |-> num, text |-> text]

\* Mutant: parse_time takes a minute for a hundred seconds.
ParseTimeCentesimal(str) ==
    LET t == Trim(str)
        colons == { k \in 1..Len(t) : t[k] = ":" }
    IN  IF colons # {}
        THEN LET c == CHOOSE k \in colons : \A m \in colons : k <= m
                 minutes == ParseU64(SubSeq(t, 1, c - 1))
                 seconds == ParseU64(SubSeq(t, c + 1, Len(t)))
             IN  IF minutes = None \/ seconds = None
                 THEN Parsed("InvalidArgument", None, None)
                 ELSE Parsed("Seek", Some(Unwrap(minutes) * 100 + Unwrap(seconds)), None)
        ELSE LET seconds == ParseU64(t)
             IN  IF seconds = None
                 THEN Parsed("InvalidArgument", None, None)
                 ELSE Parsed("Seek", seconds, None)

\* parse_time, as the Seek arm uses it
ParseTime(str) ==
    LET t == Trim(str)
        colons == { k \in 1..Len(t) : t[k] = ":" }
    IN  IF colons # {}
        THEN LET c == CHOOSE k \in colons : \A m \in colons : k <= m
                 minutes == ParseU64(SubSeq(t, 1, c - 1))
                 seconds == ParseU64(SubSeq(t, c + 1, Len(t)))
             IN  IF minutes = None \/ seconds = None
                 THEN Parsed("InvalidArgument", None, None)
                 ELSE Parsed("Seek", Some(Unwrap(minutes) * 60 + Unwrap(seconds)), None)
        ELSE LET seconds == ParseU64(t)
             IN  IF seconds = None
                 THEN Parsed("InvalidArgument", None, None)
                 ELSE Parsed("Seek", seconds, None)

\* Command::parse
CommandParse(input) ==
    LET inp == Trim(input)
        spaces == { k \in 1..Len(inp) : inp[k] = " " }
        cut == IF spaces = {} THEN Len(inp) + 1
               ELSE CHOOSE k \in spaces : \A m \in spaces : k <= m
        cmd == [k \in 1..(cut - 1) |-> ToLower(inp[k])]
        args == IF spaces = {} THEN None
                ELSE Some(Trim(SubSeq(inp, cut + 1, Len(inp))))
        arms == { r \in CommandTable : r.word = cmd }
        arm == CHOOSE r \in arms : TRUE
        mode == [k \in 1..Len(Unwrap(args)) |-> ToLower(Unwrap(args)[k])]
    IN  IF arms = {} THEN Parsed("Unknown", None, None)
        ELSE IF arm.needs_arg /\ args = None THEN Parsed("MissingArgument", None, None)
        ELSE IF arm.kind = "Seek" THEN ParseTime(Unwrap(args))
        ELSE IF arm.needs_arg THEN Parsed(arm.kind, None, args)
        ELSE IF arm.kind = "Repeat" /\ args # None
        THEN IF mode \in { << "o", "f", "f" >>, << "0" >> } THEN Parsed("Repeat", None, Some("Off"))
             ELSE IF mode \in { << "o", "n", "e" >>, << "1" >> } THEN Parsed("Repeat", None, Some("One"))
             ELSE IF mode \in { << "a", "l", "l" >>, << "2" >> } THEN Parsed("Repeat", None, Some("All"))
             ELSE Parsed("InvalidArgument", None, None)
        ELSE IF arm.kind = "Volume" /\ args # None
        THEN Parsed("Volume", ParseU64(Unwrap(args)), None)
        ELSE Parsed(arm.kind, None, None)

\* The command lines typed: a command word in any case, known or not, alone
\* or followed by an argument, with up to MaxSpaces spaces around and
\* between them.
MaxSpaces == 2
CmdInputs ==
    LET words == { << "s", "e", "e", "k" >>,
                 << "s", "k" >>,
                 << "S", "E", "E", "K" >>,
                 << "S", "k" >>,
                 << "a", "d", "d" >>,
                 << "a" >>,
                 << "s", "a", "v", "e" >>,
                 << "l", "o", "a", "d" >>,
                 << "L", "o", "a", "d" >>,
                 << "g", "o", "t", "o" >>,
                 << "g", "o" >>,
                 << "c", "d" >>,
                 << "s", "e", "a", "r", "c", "h" >>,
                 << "f", "i", "n", "d" >>,
                 << "?" >>,
                 << "p", "l", "a", "y" >>,
                 << "v", "o", "l" >>,
                 << "r", "e", "p", "e", "a", "t" >>,
                 << "q" >>,
                 << "x", "y", "z" >>,
                 << "s", "e", "e", "k", "s" >>,
                 << "s" >>,
                 << "s", "e", ":", "e", "k" >>,
                 << >> }
        texts == { << "1", ":", "3", "0" >>,
                 << "0", ":", "0", "5" >>,
                 << "9", ":", "9", "9" >>,
                 << "1", "2", ":", "0", "5" >>,
                 << "9", "0" >>,
                 << "0" >>,
                 << "+", "5" >>,
                 << "-", "5" >>,
                 << "a", "b", "c" >>,
                 << "1", ":", "x", "x" >>,
                 << ":", "3", "0" >>,
                 << "1", ":" >>,
                 << "1", ":", " ", "3", "0" >>,
                 << "x", " ", "y" >>,
                 << "a", "l", "l" >> }
        pad(n) == [k \in 1..n |-> " "]
    IN  { [NoCall EXCEPT
             !.op = "typed",
             !.before = [word |-> w, args |-> a],
             !.arg = pad(l) \o w
                       \o (IF a = None THEN <<>> ELSE pad(g) \o Unwrap(a))
                       \o pad(t)] :
          l \in 0..MaxSpaces, t \in 0..MaxSpaces,
          g \in 1..MaxSpaces,
          w \in words,
          a \in {None} \cup { Some(y) : y \in texts } }

CmdInit ==
    /\ state = "Stopped"
    /\ current_track = None
    /\ playback = None
    /\ volume = 100
    /\ playlist = PlaylistNew
    /\ sess = [s \in Slots |-> FreeSess]
    /\ thr = [s \in Slots |-> NoThread]
    /\ ctl = IdleCtl
    /\ call \in { c \in CmdInputs : c.before.word = <<>> => c.before.args = None }

\* Command::parse of the line typed.
CmdParse ==
    /\ call.op = "typed"
    /\ call' = [call EXCEPT !.op = "parse", !.ret = CommandParse(call.arg)]
    /\ UNCHANGED << state, current_track, playback, volume, playlist, sess, thr, ctl >>

\* The caller has taken the result.
CmdReturn ==
    /\ call.op = "parse"
    /\ call' = NoCall
    /\ UNCHANGED << state, current_track, playback, volume, playlist, sess, thr, ctl >>

CmdSpec == CmdInit /\ [][CmdParse \/ CmdReturn]_vars

\* ---------------------------------------------------------------- Locks
\* The locks each thread takes, in the order of its code.  A program is a
\* sequence of steps: acquire or release a lock, set the stop flag, join or
\* spawn the decode thread, drop the device stream, leave the decode loop.
\* Mutant: stop() takes the state lock before it joins the decode thread.
StopProgramStateFirst ==
    << <<"acq", "playback">>, <<"flag">>,
       <<"acq", "buffer">>, <<"rel", "buffer">>,
       <<"acq", "state">>, <<"join">>, <<"drop">>, <<"rel", "state">>,
       <<"acq", "current_track">>, <<"rel", "current_track">>,
       <<"rel", "playback">> >>

\* Player::stop
StopProgram ==
    << <<"acq", "playback">>, <<"flag">>,
       <<"acq", "buffer">>, <<"rel", "buffer">>,
       <<"join">>, <<"drop">>,
       <<"acq", "state">>, <<"rel", "state">>,
       <<"acq", "current_track">>, <<"rel", "current_track">>,
       <<"rel", "playback">> >>

\* What a thread may run next: the control thread a Player method, the
\* decode thread one of the lock-taking calls of decode_loop, the device
\* callback pop.
Programs(who) ==
    LET alone(l) == << <<"acq", l>>, <<"rel", l>> >>
        under(l, m) == << <<"acq", l>>, <<"acq", m>>, <<"rel", m>>, <<"rel", l>> >>
        play == StopProgram \o alone("volume") \o << <<"spawn">> >>
                  \o alone("playback") \o alone("current_track") \o alone("state")
    IN  CASE who = "ctl" ->
               { under("playback", "state"),        \* pause, resume
                 StopProgram,
                 play,                              \* play, seek
                 alone("playlist") \o play,         \* play_next, play_previous
                 alone("volume") \o alone("playback"),  \* set_volume
                 under("playback", "vis_data"),     \* vis_data
                 alone("playback"),                 \* position, track_ended, ...
                 alone("state") }                   \* state
          [] who = "dec" ->
               { alone("buffer"),                   \* len, is_empty, short push
                 under("buffer", "vis_data"),       \* push
                 alone("state") \o << <<"exit">> >>,   \* end of stream
                 << <<"exit">> >> }                 \* stop seen, decode error
          [] who = "cb" -> { alone("buffer") }      \* pop

\* Player::new: no session, no decode thread, no lock held.
LockInit ==
    /\ state = "Stopped"
    /\ current_track = None
    /\ playback = None
    /\ volume = 100
    /\ playlist = PlaylistNew
    /\ sess = [s \in Slots |-> FreeSess]
    /\ thr = [s \in Slots |-> NoThread]
    /\ ctl = IdleCtl
    /\ call = [ op |-> "locks",
                prog |-> [w \in {"ctl", "dec", "cb"} |-> <<>>],
                held |-> [w \in {"ctl", "dec", "cb"} |-> {}],
                stop_flag |-> FALSE,
                running |-> FALSE,
                stream |-> FALSE ]

\* A thread starts its next call.  The decode thread exists between spawn
\* and exit, and leaves once it has seen the stop flag; the callback runs
\* while a stream exists.
LockBegin(who) ==
    /\ call.prog[who] = <<>>
    /\ who = "dec" => call.running
    /\ who = "cb" => call.stream
    /\ \E p \in Programs(who) :
          /\ (who = "dec" /\ call.stop_flag) => p = << <<"exit">> >>
          /\ call' = [call EXCEPT !.prog[who] = p]
    /\ UNCHANGED << state, current_track, playback, volume, playlist, sess, thr, ctl >>

\* A thread takes the next step of its call; acquiring waits for the lock
\* to be free, join waits for the decode thread to have left, dropping the
\* stream waits for a callback in progress.
LockStep(who) ==
    /\ call.prog[who] # <<>>
    /\ LET step == Head(call.prog[who])
           rest == [call EXCEPT !.prog[who] = Tail(@)]
       IN  CASE step[1] = "acq" ->
                  /\ \A other \in {"ctl", "dec", "cb"} : step[2] \notin call.held[other]
                  /\ call' = [rest EXCEPT !.held[who] = @ \cup {step[2]}]
             [] step[1] = "rel" ->
                  call' = [rest EXCEPT !.held[who] = @ \ {step[2]}]
             [] step[1] = "flag" ->
                  call' = [rest EXCEPT !.stop_flag = TRUE]
             [] step[1] = "join" ->
                  /\ ~call.running
                  /\ call' = rest
             [] step[1] = "drop" ->
                  /\ call.prog["cb"] = <<>>
                  /\ call' = [rest EXCEPT !.stream = FALSE]
             [] step[1] = "spawn" ->
                  call' = [rest EXCEPT !.running = TRUE, !.stream = TRUE,
                                       !.stop_flag = FALSE]
             [] step[1] = "exit" ->
                  call' = [rest EXCEPT !.running = FALSE]
    /\ UNCHANGED << state, current_track, playback, volume, playlist, sess, thr, ctl >>

LockSpec ==
    LockInit /\ [][\E who \in {"ctl", "dec", "cb"} : LockBegin(who) \/ LockStep(who)]_vars

\* C21: no pop, whatever the channel counts, allocates heap memory or takes
\* any lock other than the buffer mutex.
C21_PopRealTimeSafe ==
    Popped => (call.allocs = 0 /\ call.locks \subseteq {"buffer"})

\* C22: after add, add_many, remove or move_track on a playlist whose
\* current_index is set, current_index is the new position of the entry it
\* named before, where positions change as Vec::push, Vec::remove and
\* Vec::insert change them (every surviving entry is found at its new
\* position), and it is None exactly when remove took that very entry.
C22_CurrentFollowsTrack ==
    (call.op \in {"add", "add_many", "remove", "move_track"}
       /\ IsSome(call.before.current_index)) =>
        LET old == call.before.tracks
            new == playlist.tracks
            cur == Unwrap(call.before.current_index)
            a1 == call.arg[1]
            a2 == call.arg[2]
            removes == call.op = "remove" /\ a1 < Len(old)
            moves == call.op = "move_track" /\ a1 < Len(old) /\ a2 < Len(old)
            afterRemove(p, i) == IF p < i THEN p ELSE p - 1
            afterInsert(q, i) == IF q < i THEN q ELSE q + 1
            where(p) ==
                IF removes THEN afterRemove(p, a1)
                ELSE IF moves
                THEN IF p = a1 THEN a2 ELSE afterInsert(afterRemove(p, a1), a2)
                ELSE p
            gone(p) == removes /\ p = a1
        IN  /\ \A p \in 0..(Len(old) - 1) :
                  ~gone(p) => (where(p) < Len(new) /\ new[where(p) + 1] = old[p + 1])
            /\ IF gone(cur)
               THEN playlist.current_index = None
               ELSE playlist.current_index = Some(where(cur))

\* move_track( 0, 2 ) with the second of three tracks current: the current
\* track is now the first.
C22_Witness ==
    /\ call.op = "move_track"
    /\ call.arg = << 0, 2 >>
    /\ call.before.tracks = << "a", "b", "a" >>
    /\ call.before.current_index = Some(1)
    /\ playlist.tracks = << "b", "a", "a" >>
    /\ playlist.current_index = Some(0)

\* C23: after any sequence of playlist operations, in any shuffle and
\* repeat mode, current_index is None or less than the number of tracks.
C23_CurrentInRange ==
    \/ playlist.current_index = None
    \/ /\ Unwrap(playlist.current_index) >= 0
       /\ Unwrap(playlist.current_index) < Len(playlist.tracks)

\* Shuffle on, two tracks, the second one current: removing the first one
\* leaves the current track at index 0 of a one-track list.
C23_Witness ==
    /\ call.op = "remove"
    /\ call.arg = << 0 >>
    /\ call.before.shuffle
    /\ call.before.tracks = << "a", "b" >>
    /\ call.before.current_index = Some(1)
    /\ playlist.tracks = << "b" >>
    /\ playlist.current_index = Some(0)

\* C24: after every add, add_many, remove, move_track, clear and dedup,
\* and after every set_shuffle call that changes the flag, the shuffle
\* order has as many entries as there are tracks and holds each index
\* 0..len-1 exactly once.
C24_ShuffleOrderIsPermutation ==
    (\/ call.op \in {"add", "add_many", "remove", "move_track", "clear", "dedup"}
     \/ call.op = "set_shuffle" /\ call.arg[1] # call.before.shuffle) =>
        /\ Len(playlist.shuffle_order) = Len(playlist.tracks)
        /\ \A k \in 0..(Len(playlist.tracks) - 1) :
              Cardinality({ i \in 1..Len(playlist.shuffle_order) :
                              playlist.shuffle_order[i] = k }) = 1

\* remove() from a three-track list left a two-track list with the order
\* reversed.
C24_Witness ==
    /\ call.op = "remove"
    /\ Len(call.before.tracks) = 3
    /\ call.ret # None
    /\ Len(playlist.tracks) = 2
    /\ playlist.shuffle_order = << 1, 0 >>

\* C25: with repeat One and a current track set, next() and previous()
\* return the track that was current before the call and leave
\* current_index unchanged, with shuffle off and with shuffle on.
C25_RepeatOneStays ==
    (call.op \in {"next", "previous"}
       /\ call.before.repeat = "One"
       /\ IsSome(call.before.current_index)) =>
        /\ call.ret = Current(call.before)
        /\ playlist.current_index = call.before.current_index

\* C26: with shuffle off and repeat Off, next() with the last track current
\* returns None and leaves every field of the playlist as it was, and
\* previous() with track 0 current returns track 0 and current_index stays 0.
C26_RepeatOffEnds ==
    (call.op \in {"next", "previous"}
       /\ ~call.before.shuffle /\ call.before.repeat = "Off"
       /\ Len(call.before.tracks) > 0) =>
        /\ (call.op = "next"
             /\ call.before.current_index = Some(Len(call.before.tracks) - 1)) =>
               (call.ret = None /\ playlist = call.before)
        /\ (call.op = "previous" /\ call.before.current_index = Some(0)) =>
               /\ call.ret = Some(call.before.tracks[1])
               /\ playlist.current_index = Some(0)

\* next() with the last of three tracks current.
C26_Witness ==
    /\ call.op = "next"
    /\ ~call.before.shuffle
    /\ call.before.repeat = "Off"
    /\ call.before.tracks = << "a", "b", "a" >>
    /\ call.before.current_index = Some(2)
    /\ call.ret = None

\* C27: with shuffle off, repeat All and a current track set on a non-empty
\* playlist, next() from the last index yields index 0, previous() from
\* index 0 yields the last index, and a previous() right after any next()
\* is back at the index that was current before the next().
C27_RepeatAllWraps ==
    (call.op \in {"next", "previous"}
       /\ ~call.before.shuffle /\ call.before.repeat = "All"
       /\ IsSome(call.before.current_index)
       /\ Len(call.before.tracks) > 0) =>
        LET last == Len(call.before.tracks) - 1 IN
        /\ (call.op = "next" /\ call.before.current_index = Some(last)) =>
               /\ playlist.current_index = Some(0)
               /\ call.ret = Some(call.before.tracks[1])
        /\ (call.op = "previous" /\ call.before.current_index = Some(0)) =>
               /\ playlist.current_index = Some(last)
               /\ call.ret = Some(call.before.tracks[last + 1])
        /\ call.op = "next" =>
               \A r \in PlaylistPrevious(playlist) :
                   /\ r.pl.current_index = call.before.current_index
                   /\ r.ret = Current(call.before)

\* The scenario [A,B,C] with C current: next() wrapped to index 0.
C27_Witness ==
    /\ call.op = "next"
    /\ ~call.before.shuffle
    /\ call.before.repeat = "All"
    /\ Len(call.before.tracks) = 3
    /\ call.before.current_index = Some(2)
    /\ playlist.current_index = Some(0)

\* C28: with shuffle on and repeat Off, next() moves the shuffle cursor
\* forward by one and returns the track at that position of the
\* permutation, or None from the last position; previous() moves it back
\* by one, staying at the first position; and after every such call the
\* cursor is within 0..len-1.
C28_ShuffleCursorInRange ==
    (call.op \in {"next", "previous"}
       /\ call.before.shuffle /\ call.before.repeat = "Off"
       /\ Len(call.before.tracks) > 0) =>
        LET len == Len(call.before.tracks)
            was == call.before.shuffle_position
            now == playlist.shuffle_position
            at(k) == Some(playlist.tracks[playlist.shuffle_order[k + 1] + 1])
        IN  /\ now >= 0 /\ now < len
            /\ (call.op = "next" /\ was < len - 1) =>
                   (now = was + 1 /\ call.ret = at(now))
            /\ (call.op = "next" /\ was = len - 1) => call.ret = None
            /\ call.op = "previous" =>
                   (now = (IF was > 0 THEN was - 1 ELSE 0) /\ call.ret = at(now))

\* C29: with shuffle on and repeat All on a non-empty playlist next() never
\* returns None; from the last position of the permutation (or beyond it)
\* it leaves a shuffle order that is a permutation of 0..len-1, the cursor
\* at 0, and returns the track at the first position of that order, which
\* is then the current track.
C29_ShuffleRepeatAllWraps ==
    (call.op = "next"
       /\ call.before.shuffle /\ call.before.repeat = "All"
       /\ Len(call.before.tracks) > 0) =>
        LET len == Len(call.before.tracks)
            order == playlist.shuffle_order
        IN  /\ call.ret # None
            /\ call.before.shuffle_position >= len - 1 =>
                  /\ Len(order) = len
                  /\ { order[i] : i \in 1..len } = 0..(len - 1)
                  /\ playlist.shuffle_position = 0
                  /\ playlist.current_index = Some(order[1])
                  /\ call.ret = Some(playlist.tracks[order[1] + 1])

\* next() from the last position of a three-track permutation came back
\* with a different permutation.
C29_Witness ==
    /\ call.op = "next"
    /\ call.before.shuffle
    /\ call.before.repeat = "All"
    /\ Len(call.before.tracks) = 3
    /\ call.before.shuffle_position = 2
    /\ playlist.shuffle_order # call.before.shuffle_order
    /\ playlist.shuffle_position = 0

\* C30: dedup() keeps exactly the first occurrence of each distinct path,
\* in the original relative order, returns the number of entries removed,
\* and maps current_index to the new position of the entry it named, or to
\* None when that entry was a later duplicate.
C30_DedupKeepsFirst ==
    call.op = "dedup" =>
        LET old == call.before.tracks
            first(i) == \A j \in 1..(i - 1) : old[j] # old[i]
            kept == { i \in 1..Len(old) : first(i) }
            pos(i) == Cardinality({ j \in kept : j < i }) + 1
            cur == call.before.current_index
        IN  /\ Len(playlist.tracks) = Cardinality(kept)
            /\ \A i \in kept : playlist.tracks[pos(i)] = old[i]
            /\ call.ret = Len(old) - Cardinality(kept)
            /\ playlist.current_index =
                  (IF cur = None THEN None
                   ELSE IF cur[1] + 1 \in kept THEN Some(pos(cur[1] + 1) - 1)
                   ELSE None)

\* dedup() removed a duplicate that stood before the current entry, which
\* moved down by one.
C30_Witness ==
    /\ call.op = "dedup"
    /\ call.before.tracks = <<"a", "a", "b">>
    /\ call.before.current_index = Some(2)
    /\ call.ret = 1
    /\ playlist.current_index = Some(1)

\* C31: a dedup() that directly follows a dedup() returns 0 and leaves the
\* track list and current_index as the first call left them.
C31_DedupIdempotent ==
    call.op = "dedup" =>
        \A again \in PlaylistDedup(playlist) :
            /\ again.ret = 0
            /\ again.pl.tracks = playlist.tracks
            /\ again.pl.current_index = playlist.current_index

\* The first dedup() removed a duplicate and moved the current entry down.
C31_Witness ==
    /\ call.op = "dedup"
    /\ call.ret = 1
    /\ call.before.tracks = <<"b", "b", "a">>
    /\ call.before.current_index = Some(2)
    /\ playlist.current_index = Some(1)

\* C32: load of the file save wrote returns the same ordered list of paths,
\* and no track it returns comes from a blank line or a line that begins
\* with '#'.
C32_SaveLoadRoundTrip ==
    call.op = "load" =>
        /\ playlist.tracks = call.before.tracks
        /\ \A k \in 1..Len(playlist.tracks) :
              playlist.tracks[k] # <<>> /\ playlist.tracks[k][1] # "#"

\* C33: jump_to(i) with i < len sets current_index to i and returns track
\* i, leaving the tracks, the shuffle order, the shuffle cursor, the shuffle
\* flag and the repeat mode as they were; with i >= len it returns None and
\* changes nothing.
C33_JumpToFrame ==
    call.op = "jump_to" =>
        LET i == call.arg[1]
            was == call.before
        IN  IF i < Len(was.tracks)
            THEN /\ playlist = [was EXCEPT !.current_index = Some(i)]
                 /\ call.ret = Some(was.tracks[i + 1])
            ELSE /\ playlist = was
                 /\ call.ret = None

\* jump_to(2) on a shuffled three-track list whose cursor is at 1 and whose
\* current track is another one.
C33_Witness ==
    /\ call.op = "jump_to"
    /\ call.arg = << 2 >>
    /\ Len(call.before.tracks) = 3
    /\ call.before.shuffle
    /\ call.before.shuffle_position = 1
    /\ call.before.current_index = Some(0)
    /\ playlist.current_index = Some(2)

\* C34: parse of a seek command whose argument is M:SS yields Seek at
\* M * 60 + SS seconds, and at N seconds when the argument is the plain
\* integer N; a command word outside the command table yields Unknown; add,
\* save, load, goto, search and seek (and their short forms) given no
\* argument yield MissingArgument.
C34_CommandParse ==
    call.op = "parse" =>
        LET word == [k \in 1..Len(call.before.word) |-> ToLower(call.before.word[k])]
            args == call.before.args
            text == Unwrap(args)
            dv == ("0" :> 0) @@ ("1" :> 1) @@ ("2" :> 2) @@ ("3" :> 3) @@ ("4" :> 4)
                    @@ ("5" :> 5) @@ ("6" :> 6) @@ ("7" :> 7) @@ ("8" :> 8) @@ ("9" :> 9)
            isdigits(str) == str # <<>> /\ \A k \in 1..Len(str) : str[k] \in DOMAIN dv
            decimal(str) ==
                LET pow[e \in 0..Len(str)] == IF e = 0 THEN 1 ELSE 10 * pow[e - 1]
                    sum[k \in 0..Len(str)] ==
                        IF k = 0 THEN 0
                        ELSE sum[k - 1] + dv[str[k]] * pow[Len(str) - k]
                IN  sum[Len(str)]
            seek == word \in { << "s", "e", "e", "k" >>, << "s", "k" >> }
            needs == { << "a", "d", "d" >>, << "a" >>, << "s", "a", "v", "e" >>,
                       << "l", "o", "a", "d" >>, << "g", "o", "t", "o" >>,
                       << "g", "o" >>, << "c", "d" >>,
                       << "s", "e", "a", "r", "c", "h" >>, << "f", "i", "n", "d" >>,
                       << "?" >>, << "s", "e", "e", "k" >>, << "s", "k" >> }
        IN  /\ (seek /\ args # None /\ Len(text) = 4 /\ text[2] = ":"
                   /\ isdigits(<< text[1], text[3], text[4] >>)) =>
                  call.ret = Parsed("Seek",
                                    Some(dv[text[1]] * 60 + dv[text[3]] * 10 + dv[text[4]]),
                                    None)
            /\ (seek /\ args # None /\ isdigits(text)) =>
                  call.ret = Parsed("Seek", Some(decimal(text)), None)
            /\ word \notin { r.word : r \in CommandTable } =>
                  call.ret.kind = "Unknown"
            /\ (word \in needs /\ args = None) =>
                  call.ret.kind = "MissingArgument"

\* " SEEK  1:30 " was parsed to Seek at 90 seconds.
C34_Witness ==
    /\ call.op = "parse"
    /\ call.arg = << " ", "S", "E", "E", "K", " ", " ", "1", ":", "3", "0", " " >>
    /\ call.ret = Parsed("Seek", Some(90), None)

\* C35: a decode-loop iteration that sees the paused flag set goes back to
\* the loop head without decoding and without touching the frame counter;
\* and while a session stays paused its frame counter moves only when a
\* thread that had passed the pause check before decodes its chunk, by at
\* most that one chunk, after which the thread cannot pass the check again.
C35_PausedLoopDoesNotDecode ==
    [][\A s \in Slots :
         LET passed(t) == t.pc \in {"chk_len", "decode"}
         IN  /\ (thr[s].pc = "chk_pause" /\ sess[s].paused /\ thr'[s] # thr[s]) =>
                   /\ thr'[s].pc = "chk_stop"
                   /\ sess'[s].frames_played = sess[s].frames_played
             /\ (Running(s) /\ thr'[s].pc # "none"
                    /\ sess[s].paused /\ sess'[s].paused) =>
                   /\ ~passed(thr[s]) => ~passed(thr'[s])
                   /\ sess'[s].frames_played # sess[s].frames_played =>
                         /\ thr[s].pc = "decode"
                         /\ ~passed(thr'[s])
                         /\ sess'[s].frames_played - sess[s].frames_played
                               \in 1..ChunkFrames
      ]_vars

\* pause() has returned while the decode thread, past its pause check, is
\* about to decode one more chunk.
C35_Witness ==
    /\ Returned("pause", "ok")
    /\ IsSome(playback)
    /\ sess[Unwrap(playback)].paused
    /\ thr[Unwrap(playback)].pc = "decode"
    /\ thr[Unwrap(playback)].cursor < SourceFrames(thr[Unwrap(playback)].path)

C37_FatalDecodeErrorIsSilent ==
    /\ [](\A s \in Slots :
            thr[s].exit = "err" =>
              /\ thr[s].pc = "done"
              /\ ~sess[s].track_ended
              /\ playback = Some(s) => ~TrackEnded)
    /\ [][\A s \in Slots :
            /\ (thr[s].pc = "decode" /\ thr'[s].exit = "err") =>
                  /\ state' = state
                  /\ playback' = playback
                  /\ sess'[s] = sess[s]
            /\ (thr[s].exit = "err" /\ thr'[s].pc # "none") => thr'[s] = thr[s]
            /\ (thr[s].exit = "err" /\ playback = Some(s) /\ playback' # playback) =>
                  /\ playback' = None
                  /\ ctl'.op \in {"stop", "play", "seek", "play_next", "play_previous"}
         ]_vars

\* The thread of the stored session has ended on a decode error: the engine
\* still reports Playing and track_ended() is false.
C37_Witness ==
    /\ ctl.pc = "idle"
    /\ IsSome(playback)
    /\ thr[Unwrap(playback)].exit = "err"
    /\ state = "Playing"
    /\ ~TrackEnded

\* C38: whenever no control operation is in progress and a session is
\* stored, the volume of its buffer is the engine's stored volume;
\* set_volume() with a session changes both, without one it changes only
\* the stored value, and a session is created with the stored value.
C38_VolumeInSync ==
    /\ []((AtRest /\ IsSome(playback)) => sess[Unwrap(playback)].vol = volume)
    /\ [][/\ (ctl.pc = "idle" /\ ctl'.op = "set_volume") =>
              /\ playback' = playback
              /\ IF IsSome(playback)
                 THEN sess' = [sess EXCEPT ![Unwrap(playback)].vol = volume']
                 ELSE sess' = sess
          /\ \A s \in Slots :
                (~sess[s].handle /\ sess'[s].handle) =>
                    /\ volume' = volume
                    /\ sess'[s].vol = volume
         ]_vars

\* play() has returned with a session at the volume that was set before.
C38_Witness ==
    /\ Returned("play", "ok")
    /\ IsSome(playback)
    /\ volume = 50
    /\ sess[Unwrap(playback)].vol = 50

\* C39: no set of threads wait for each other in a cycle (for a lock the
\* other holds, for the decode thread to leave, for the callback to end);
\* no thread asks for the session lock while it holds the state lock, or
\* for the sample-ring mutex while it holds the visualization mutex; and
\* stop() holds the session lock and nothing else when it joins.
C39_NoLockCycle ==
    call.op = "locks" =>
        LET T == {"ctl", "dec", "cb"}
            busy(w) == call.prog[w] # <<>>
            step(w) == Head(call.prog[w])
            waits(w, h) ==
                /\ w # h
                /\ busy(w)
                /\ \/ step(w)[1] = "acq" /\ step(w)[2] \in call.held[h]
                   \/ step(w)[1] = "join" /\ h = "dec" /\ call.running
                   \/ step(w)[1] = "drop" /\ h = "cb" /\ busy("cb")
        IN  /\ \A C \in SUBSET T \ {{}} :
                  \E w \in C : \A h \in C : ~waits(w, h)
            /\ \A w \in T :
                  (busy(w) /\ step(w)[1] = "acq") =>
                    /\ step(w)[2] = "playback" => "state" \notin call.held[w]
                    /\ step(w)[2] = "buffer" => "vis_data" \notin call.held[w]
            /\ (busy("ctl") /\ step("ctl")[1] = "join") =>
                  call.held["ctl"] = {"playback"}

\* stop() waits in join, holding the session lock, while the decode thread
\* is inside push with both buffer locks and the callback waits for the ring.
C39_Witness ==
    /\ call.op = "locks"
    /\ call.prog["ctl"] # <<>>
    /\ Head(call.prog["ctl"]) = <<"join">>
    /\ call.running
    /\ call.held["dec"] = {"buffer", "vis_data"}
    /\ call.prog["cb"] # <<>>
    /\ Head(call.prog["cb"]) = <<"acq", "buffer">>

====
